---- MODULE Spec2Model ----
\* A state-machine model of the Amplitude profiler plugin: the bounded message
\* queue (ProfilerMessageQueue), the distribution manager (ProfilerManager) and
\* the connection server (ProfilerServer).
\*
\* Three specifications share the module:
\*   SpecQ  several threads calling one ProfilerMessageQueue, each call split at
\*          its lock operations and at its store into the atomic _currentSize;
\*   SpecM  the ProfilerManager: application calls and the update-loop thread;
\*   Spec   the ProfilerServer: the application thread, a broadcasting thread
\*          and the accept thread running the uWebSockets event loop.
EXTENDS Integers, Sequences, FiniteSets, TLC

\* ---------------------------------------------------------------- bounds
\* Maximum of the queue under test (the constructor's maxSize argument).
MaxSize == 2
\* Number of PushMessage calls made in one behaviour of SpecQ.
MaxPushes == 4

\* ------------------------------------------------------------- utilities
NoThread == "none"

Min(a, b) == IF a <= b THEN a ELSE b

Range(s) == {s[i] : i \in 1..Len(s)}

\* index of x in the sequence s (0 when absent)
IndexOf(s, x) == IF x \in Range(s) THEN CHOOSE i \in 1..Len(s) : s[i] = x ELSE 0

IsPrefix(s, t) == Len(s) <= Len(t) /\ SubSeq(t, 1, Len(s)) = s

\* ======================================================================
\* ProfilerMessageQueue
\* ======================================================================
VARIABLES
    queue,            \* std::queue<ProfilerDataVariant> _queue (messages by id)
    currentSize,      \* std::atomic<AmSize> _currentSize
    droppedMessages,  \* std::atomic<AmSize> _droppedMessages
    qMutex,           \* holder of _mutex, or NoThread
    qpc,              \* per thread: position inside the call it is making
    qarg,             \* per thread: argument of the call (message id or maxCount)
    qres,             \* per thread: messages its pop call is about to return
    qsnap,            \* per thread: content of _queue when the call took the lock
    sizeSeen,         \* value returned by the last Size() call
    nextMsg,          \* next message id handed to a PushMessage call
    accepted,         \* history: messages enqueued, in enqueue order
    popped,           \* history: messages returned by pops, in pop order
    pushFalse,        \* history: number of PushMessage calls that returned false
    cleared           \* history: Clear() has discarded at least one entry

qvars == <<queue, currentSize, droppedMessages, qMutex, qpc, qarg, qres, qsnap,
           sizeSeen, nextMsg, accepted, popped, pushFalse, cleared>>

\* ProfilerManager state (the manager is described below)
VARIABLES
    mInitialized,       \* _initialized
    mEnabled,           \* _enabled
    mRunning,           \* _running (the update loop's flag)
    updateThread,       \* _updateThread: "null", "live" or "released" (handle kept after Release)
    mConfig,            \* _config
    dataCollector,      \* _dataCollector != nullptr
    messageQueue,       \* _messageQueue != nullptr
    mq,                 \* the entries of *_messageQueue
    mqDropped,          \* _messageQueue->_droppedMessages
    messagesDropped,    \* _statistics.messagesDropped
    totalMessagesSent,  \* _statistics.totalMessagesSent
    networkServer,      \* _networkServer != nullptr
    localCallback,      \* _localCallback is set
    callbackMutex,      \* holder of _callbackMutex, or NoThread
    recursiveMutex,     \* whether Thread::LockMutex may be re-entered by its holder (build-dependent)
    messageIdCounter,   \* ProfilerDataSnapshot::_sMessageIdCounter
    userEvent,          \* message id of the ProfilerEvent object the application holds (0: none)
    mpc,                \* per thread: position
    plan,               \* per thread: capture operations still to run in the current call
    pending,            \* per thread: the snapshot built and not yet pushed
    batch,              \* update thread: messages popped and not yet distributed
    eventCaptures,      \* number of CaptureEvent calls made (bounded)
    crashed             \* a null or released pointer was dereferenced

mvars == <<mInitialized, mEnabled, mRunning, updateThread, mConfig, dataCollector,
           messageQueue, mq, mqDropped, messagesDropped, totalMessagesSent,
           networkServer, localCallback, callbackMutex, recursiveMutex,
           messageIdCounter, userEvent, mpc, plan, pending, batch, eventCaptures, crashed>>

\* ProfilerServer state (the server is described below)
VARIABLES
    sRunning,         \* _running
    maxClients,       \* _maxClients
    nextClientId,     \* _nextClientId
    clients,          \* _clients: client id -> mMessagesSent of the session
    totalSent,        \* _statistics.mTotalMessagesSent
    statistics,       \* _statistics: mTotalConnections, mTotalDisconnections,
                      \* mActiveConnections
    gSocket,          \* gSocket != nullptr
    gLoop,            \* gLoop != nullptr
    listening,        \* the listen socket of the uWS::App is open
    sockets,          \* the web sockets that are open, by the client id in their user data
    deferred,         \* callbacks handed to gLoop->defer and not yet run
    clientsMutex,     \* holder of _clientsMutex, or NoThread
    callbacksMutex,   \* holder of _callbacksMutex, or NoThread
    onConnected,      \* _onClientConnected is set
    onDisconnected,   \* _onClientDisconnected is set
    spc,              \* per thread: position
    cur,              \* per thread: client id of the socket its handler or call is about
    bq,               \* BroadcastMessage: client ids still to visit
    success,          \* _sendToSocket's local: "none" outside the call
    sentCount,        \* BroadcastMessage's local
    assigned,         \* history: the ids handed to connections, in order
    before,           \* history: the ids handed out before the latest Start
    broadcasts,       \* history: number of BroadcastMessage calls
    stopped,          \* history: the last lifecycle call to return was a Stop
    errorReported,    \* history: the accept thread has reached its call of _onError
                      \* since the latest Start
    invoked,          \* history: the client ids the connected callback was invoked
                      \* for, and per id the invocations of the disconnected callback
    sCrashed          \* a null, dangling or invalidated reference was used, or two
                      \* accept threads run the one event loop: the behaviour is
                      \* undefined from here on and is followed no further

svars == <<sRunning, maxClients, nextClientId, clients, totalSent, statistics,
           gSocket, gLoop,
           listening, sockets, deferred, clientsMutex, callbacksMutex, onConnected,
           onDisconnected, spc, cur, bq, success, sentCount, assigned, before,
           broadcasts, stopped, errorReported, invoked, sCrashed>>

\* --- ProfilerServer::_serializeProfilerData ---
VARIABLES
    data,             \* the snapshot handed to the encoder, or NoData
    root              \* the Json::Value the encoder has built from it, or NoRoot

evars == <<data, root>>

\* --- ProfilerManager::GetInstance / DestroyInstance ---
VARIABLES
    sInstance,        \* _sInstance: 0 is nullptr, n is the n-th instance constructed
    sInstanceMutex,   \* holder of _sInstanceMutex
    constructed,      \* number of ProfilerManager instances constructed so far
    ipc,              \* position of each thread in GetInstance / DestroyInstance
    ret               \* the value _sInstance.get() gave each thread in GetInstance

ivars == <<sInstance, sInstanceMutex, constructed, ipc, ret>>

\* --- ProfilerManager::UpdateLoop: the clock and the Timed mode ---
VARIABLES
    now,              \* high_resolution_clock::now(), in ticks
    lastUpdate,       \* _lastUpdate
    updateInterval    \* _updateInterval, in ticks

tvars == <<now, lastUpdate, updateInterval>>

vars == <<qvars, mvars, svars, evars, ivars, tvars>>

\* a step of the queue under test leaves the manager and the server alone, and
\* likewise for the manager (which owns its own queue) and for the server
QOnly == UNCHANGED <<mvars, svars, evars, ivars, tvars>>
MOnly == UNCHANGED <<qvars, svars, evars, ivars, tvars>>
SOnly == UNCHANGED <<qvars, mvars, evars, ivars, tvars>>
EOnly == UNCHANGED <<qvars, mvars, svars, ivars, tvars>>
IOnly == UNCHANGED <<qvars, mvars, svars, evars, tvars>>
\* a step of the manager that reads the clock or sets its timing members
TOnly == UNCHANGED <<qvars, svars, evars, ivars>>

\* the threads that use the queue
QThreads == {"t1", "t2"}

\* PushMessage's test for a full queue
QueueFull_gt(q, max) == Len(q) > max
QueueFull(q, max) == Len(q) >= max

\* the entries PopMessages(maxCount) moves out of q: its while loop
PopCount_all(q, maxCount) == Len(q)
PopCount_one(q, maxCount) == Min(Len(q), Min(maxCount, 1))
PopCount(q, maxCount) == Min(Len(q), maxCount)

\* the value PushMessage/PopMessage/PopMessages store into _currentSize
StoredSize_stale(q, old) == old
StoredSize(q, old) == Len(q)

\* the value Clear stores into _currentSize
ClearedSize == 0

QInit ==
    /\ queue = <<>>
    /\ currentSize = 0
    /\ droppedMessages = 0
    /\ qMutex = NoThread
    /\ qpc = [t \in QThreads |-> "idle"]
    /\ qarg = [t \in QThreads |-> 0]
    /\ qres = [t \in QThreads |-> <<>>]
    /\ qsnap = [t \in QThreads |-> <<>>]
    /\ sizeSeen = 0
    /\ nextMsg = 1
    /\ accepted = <<>>
    /\ popped = <<>>
    /\ pushFalse = 0
    /\ cleared = FALSE

\* a thread enters a call and takes _mutex (Thread::LockMutex)
QLock(t, call, arg) ==
    /\ qpc[t] = "idle"
    /\ qMutex = NoThread
    /\ qMutex' = t
    /\ qpc' = [qpc EXCEPT ![t] = call]
    /\ qarg' = [qarg EXCEPT ![t] = arg]
    /\ qsnap' = [qsnap EXCEPT ![t] = queue]
    /\ QOnly

\* a call returns: its locals go out of scope
QReturn(t) ==
    /\ qpc' = [qpc EXCEPT ![t] = "idle"]
    /\ qarg' = [qarg EXCEPT ![t] = 0]
    /\ qres' = [qres EXCEPT ![t] = <<>>]
    /\ qsnap' = [qsnap EXCEPT ![t] = <<>>]

\* PushMessage: lock
PushMessageLock(t) ==
    /\ nextMsg <= MaxPushes
    /\ QLock(t, "push_check", nextMsg)
    /\ nextMsg' = nextMsg + 1
    /\ UNCHANGED <<queue, currentSize, droppedMessages, qres, sizeSeen, accepted,
                   popped, pushFalse, cleared>>

\* PushMessage: the full test; a full queue counts the drop and unlocks
PushMessageCheck(t) ==
    /\ qpc[t] = "push_check"
    /\ IF QueueFull(queue, MaxSize)
       THEN /\ droppedMessages' = droppedMessages + 1
            /\ qMutex' = NoThread
            /\ qpc' = [qpc EXCEPT ![t] = "push_ret_false"]
            /\ UNCHANGED <<queue, accepted>>
       ELSE /\ queue' = Append(queue, qarg[t])
            /\ accepted' = Append(accepted, qarg[t])
            /\ qpc' = [qpc EXCEPT ![t] = "push_store"]
            /\ UNCHANGED <<droppedMessages, qMutex>>
    /\ UNCHANGED <<currentSize, qarg, qres, qsnap, sizeSeen, nextMsg, popped,
                   pushFalse, cleared>>
    /\ QOnly

\* PushMessage: return false
PushMessageReturnFalse(t) ==
    /\ qpc[t] = "push_ret_false"
    /\ QReturn(t)
    /\ pushFalse' = pushFalse + 1
    /\ UNCHANGED <<queue, currentSize, droppedMessages, qMutex, sizeSeen, nextMsg,
                   accepted, popped, cleared>>
    /\ QOnly

\* the store into _currentSize that follows the change of _queue
QStore(t, from, to) ==
    /\ qpc[t] = from
    /\ currentSize' = StoredSize(queue, currentSize)
    /\ qpc' = [qpc EXCEPT ![t] = to]
    /\ UNCHANGED <<queue, droppedMessages, qMutex, qarg, qres, qsnap, sizeSeen,
                   nextMsg, accepted, popped, pushFalse, cleared>>
    /\ QOnly

\* a call that changed _queue unlocks and returns
QUnlockReturn(t, from) ==
    /\ qpc[t] = from
    /\ qMutex' = NoThread
    /\ QReturn(t)
    /\ UNCHANGED <<queue, currentSize, droppedMessages, sizeSeen, nextMsg,
                   accepted, popped, pushFalse, cleared>>
    /\ QOnly

PushMessageStore(t) == QStore(t, "push_store", "push_ret_true")

\* PushMessage: unlock and return true
PushMessageReturnTrue(t) == QUnlockReturn(t, "push_ret_true")

\* PopMessage: lock
PopMessageLock(t) ==
    /\ QLock(t, "pop_check", 1)
    /\ UNCHANGED <<queue, currentSize, droppedMessages, qres, sizeSeen, nextMsg,
                   accepted, popped, pushFalse, cleared>>

\* PopMessage: an empty queue unlocks and returns nullopt, else the front is moved out
PopMessageCheck(t) ==
    /\ qpc[t] = "pop_check"
    /\ IF queue = <<>>
       THEN /\ qMutex' = NoThread
            /\ QReturn(t)
            /\ UNCHANGED <<queue, popped>>
       ELSE /\ qres' = [qres EXCEPT ![t] = <<Head(queue)>>]
            /\ popped' = Append(popped, Head(queue))
            /\ queue' = Tail(queue)
            /\ qpc' = [qpc EXCEPT ![t] = "pop_store"]
            /\ UNCHANGED <<qMutex, qarg, qsnap>>
    /\ UNCHANGED <<currentSize, droppedMessages, sizeSeen, nextMsg, accepted,
                   pushFalse, cleared>>
    /\ QOnly

PopMessageStore(t) == QStore(t, "pop_store", "pop_ret")

\* PopMessage: unlock and return the message
PopMessageReturn(t) == QUnlockReturn(t, "pop_ret")

\* PopMessages(maxCount): lock
PopMessagesLock(t, maxCount) ==
    /\ QLock(t, "popn_loop", maxCount)
    /\ UNCHANGED <<queue, currentSize, droppedMessages, qres, sizeSeen, nextMsg,
                   accepted, popped, pushFalse, cleared>>

\* PopMessages: the while loop, run under the lock
PopMessagesLoop(t) ==
    /\ qpc[t] = "popn_loop"
    /\ LET n == PopCount(queue, qarg[t])
       IN /\ qres' = [qres EXCEPT ![t] = SubSeq(queue, 1, n)]
          /\ popped' = popped \o SubSeq(queue, 1, n)
          /\ queue' = SubSeq(queue, n + 1, Len(queue))
    /\ qpc' = [qpc EXCEPT ![t] = "popn_store"]
    /\ UNCHANGED <<currentSize, droppedMessages, qMutex, qarg, qsnap, sizeSeen,
                   nextMsg, accepted, pushFalse, cleared>>
    /\ QOnly

PopMessagesStore(t) == QStore(t, "popn_store", "popn_ret")

\* PopMessages: unlock and return the messages
PopMessagesReturn(t) == QUnlockReturn(t, "popn_ret")

\* Clear: lock
ClearLock(t) ==
    /\ QLock(t, "clear_loop", 0)
    /\ UNCHANGED <<queue, currentSize, droppedMessages, qres, sizeSeen, nextMsg,
                   accepted, popped, pushFalse, cleared>>

\* Clear: pop every entry (the while loop, run under the lock)
ClearLoop(t) ==
    /\ qpc[t] = "clear_loop"
    /\ queue' = <<>>
    /\ cleared' = (cleared \/ queue # <<>>)
    /\ qpc' = [qpc EXCEPT ![t] = "clear_store"]
    /\ UNCHANGED <<currentSize, droppedMessages, qMutex, qarg, qres, qsnap,
                   sizeSeen, nextMsg, accepted, popped, pushFalse>>
    /\ QOnly

\* Clear: _currentSize = 0
ClearStore(t) ==
    /\ qpc[t] = "clear_store"
    /\ currentSize' = ClearedSize
    /\ qpc' = [qpc EXCEPT ![t] = "clear_ret"]
    /\ UNCHANGED <<queue, droppedMessages, qMutex, qarg, qres, qsnap, sizeSeen,
                   nextMsg, accepted, popped, pushFalse, cleared>>
    /\ QOnly

\* Clear: unlock and return
ClearReturn(t) == QUnlockReturn(t, "clear_ret")

\* Size(): a read of _currentSize without the lock (Empty() reads the same value)
Size(t) ==
    /\ qpc[t] = "idle"
    /\ sizeSeen' = currentSize
    /\ UNCHANGED <<queue, currentSize, droppedMessages, qMutex, qpc, qarg, qres,
                   qsnap, nextMsg, accepted, popped, pushFalse, cleared>>
    /\ QOnly

QNext ==
    \E t \in QThreads :
        \/ PushMessageLock(t)
        \/ PushMessageCheck(t)
        \/ PushMessageReturnFalse(t)
        \/ PushMessageStore(t)
        \/ PushMessageReturnTrue(t)
        \/ PopMessageLock(t)
        \/ PopMessageCheck(t)
        \/ PopMessageStore(t)
        \/ PopMessageReturn(t)
        \/ \E n \in 0..(MaxSize + 1) : PopMessagesLock(t, n)
        \/ PopMessagesLoop(t)
        \/ PopMessagesStore(t)
        \/ PopMessagesReturn(t)
        \/ ClearLock(t)
        \/ ClearLoop(t)
        \/ ClearStore(t)
        \/ ClearReturn(t)
        \/ Size(t)

\* ----------------------------------------------------------------------
\* C1: the queue never holds more than its maximum (neither _queue nor the
\* cached count nor any Size() read exceeds MaxSize), a PushMessage call
\* returns false exactly when the queue held MaxSize entries when the call
\* took the lock, and the dropped counter equals the number of PushMessage
\* calls that returned false (counting the calls that have left the lock and
\* are returning false).
C1_BoundedQueueCountsDrops ==
    /\ Len(queue) <= MaxSize
    /\ currentSize <= MaxSize
    /\ sizeSeen <= MaxSize
    /\ \A t \in QThreads :
          /\ qpc[t] = "push_ret_false" => Len(qsnap[t]) = MaxSize
          /\ qpc[t] \in {"push_store", "push_ret_true"} => Len(qsnap[t]) < MaxSize
    /\ droppedMessages = pushFalse + Cardinality({t \in QThreads : qpc[t] = "push_ret_false"})

\* a push is being rejected on a full queue after an earlier one was
C1_Witness ==
    /\ Len(queue) = MaxSize
    /\ pushFalse >= 1
    /\ \E t \in QThreads : qpc[t] = "push_ret_false"

\* C2: PopMessages(n) returns the min(n, size) oldest entries in enqueue order
\* (so at most n), PopMessage returns the oldest entry; the messages returned
\* by all pops, in pop order, follow the enqueue order without repetition, and
\* as long as Clear has discarded nothing they are a prefix of it, the rest
\* being the entries still queued.
C2_PopFifo ==
    /\ \A t \in QThreads :
          /\ qpc[t] \in {"popn_store", "popn_ret"}
                => /\ Len(qres[t]) <= qarg[t]
                   /\ qres[t] = SubSeq(qsnap[t], 1, Min(qarg[t], Len(qsnap[t])))
          /\ qpc[t] \in {"pop_store", "pop_ret"} => qres[t] = <<Head(qsnap[t])>>
    /\ \A i, j \in 1..Len(popped) :
          i < j => /\ IndexOf(accepted, popped[i]) > 0
                   /\ IndexOf(accepted, popped[i]) < IndexOf(accepted, popped[j])
    /\ ~cleared => popped \o queue = accepted

\* a batch of two is being returned after an earlier pop
C2_Witness ==
    /\ Len(popped) >= 3
    /\ \E t \in QThreads : qpc[t] = "popn_ret" /\ Len(qres[t]) = 2 /\ qarg[t] > 2

\* C3: whenever _mutex is free the cached count equals the number of queued
\* entries, and every lock-free Size() read, whatever the other threads are
\* doing, lies between 0 and the maximum.
C3_CachedSizeConsistent ==
    /\ qMutex = NoThread => currentSize = Len(queue)
    /\ sizeSeen \in 0..MaxSize

\* a Size() read taken inside another thread's PopMessages, before its store
C3_Witness ==
    \E u \in QThreads :
        /\ qMutex = u /\ qpc[u] = "popn_store"
        /\ sizeSeen = currentSize
        /\ sizeSeen # Len(queue)

\* ======================================================================
\* ProfilerManager
\* ======================================================================
\* The application thread makes the public calls; the update thread runs
\* UpdateLoop. A call is one step, except where it waits for the other thread
\* (Deinitialize joins the update thread) and except the capture operations,
\* which build a snapshot (taking its message id) in one step and push it in
\* the next. The short critical sections on _configMutex and _statisticsMutex
\* are inside single steps; _callbackMutex is held across the callback.
\* ---------------------------------------------------------------- bounds
\* Stands for the maximum of the manager's queue, which is the constructor
\* default of ProfilerMessageQueue (1000): the configured mMaxQueuedMessages
\* is never handed to the queue.
MgrQueueMax == 1
\* Number of snapshots constructed in one behaviour of SpecM.
MaxMsgs == 2

\* ticks of the clock in one behaviour of SpecT
MaxTime == 4

\* bound on the number of CaptureEvent calls
MaxEventCaptures == 1

MThreads == {"app", "loop"}

\* eProfilerCategory
eProfilerCategory_Engine == 1
eProfilerCategory_Entity == 2
eProfilerCategory_Channel == 4
eProfilerCategory_Listener == 8
eProfilerCategory_Performance == 32
eProfilerCategory_Events == 128
\* the eight category bits of eProfilerCategory_All
CategoryBits == 255

kMaxProfilerClients == 8
kDefaultProfilerPort == 27002

\* the capture operations and the category each one tests and produces
CaptureOps == {"Engine", "Entity", "Channel", "Listener", "Performance", "Event",
               "AllEntities", "AllChannels", "AllListeners"}

\* the capture operations the application calls directly
AppCaptureOps == {"Channel", "AllChannels"}

OpCategory(op) ==
    CASE op = "Engine" -> eProfilerCategory_Engine
      [] op \in {"Entity", "AllEntities"} -> eProfilerCategory_Entity
      [] op \in {"Channel", "AllChannels"} -> eProfilerCategory_Channel
      [] op \in {"Listener", "AllListeners"} -> eProfilerCategory_Listener
      [] op = "Performance" -> eProfilerCategory_Performance
      [] op = "Event" -> eProfilerCategory_Events

\* the ids GetAllEntityIds/GetAllChannelIds/GetAllListenerIds return: none
GetAllIds(op) == <<>>

\* the single captures a bulk operation makes, one per id
BulkOps == {"AllEntities", "AllChannels", "AllListeners"}

\* ShouldCaptureCategory: (_config.mCategoryMask & category) != 0
ShouldCaptureCategory_always(mask, category) == TRUE
ShouldCaptureCategory(mask, category) == (mask \div category) % 2 = 1

\* ProfilerConfig::Validate, on the fields the model carries
Validate(c) ==
    /\ c.mEnableNetworking =>
          /\ c.mServerPort # 0
          /\ c.mMaxClients # 0 /\ c.mMaxClients <= kMaxProfilerClients
    /\ c.mUpdateFrequencyHz > 0 /\ c.mUpdateFrequencyHz <= 1000
    /\ c.mMaxMessagesPerFrame # 0 /\ c.mMaxMessagesPerFrame <= 10000
    /\ c.mMaxQueuedMessages # 0 /\ c.mMaxQueuedMessages <= 100000

UpdateModes == {"Timed", "OnChange", "PerFrame", "Manual"}

\* the ProfilerConfig default constructor, with the eight category bits
DefaultConfig ==
    [mEnableNetworking |-> TRUE, mServerPort |-> kDefaultProfilerPort,
     mMaxClients |-> kMaxProfilerClients, mUpdateMode |-> "Timed",
     mUpdateFrequencyHz |-> 30,
     mMaxMessagesPerFrame |-> 100, mCategoryMask |-> CategoryBits,
     mCaptureEngineState |-> TRUE, mCapturePerformanceMetrics |-> TRUE,
     mMaxQueuedMessages |-> 1000]

\* the configurations handed to Initialize
Configs ==
    {DefaultConfig,
     [DefaultConfig EXCEPT !.mEnableNetworking = FALSE, !.mUpdateMode = "Manual",
                           !.mMaxMessagesPerFrame = 1, !.mMaxQueuedMessages = 1],
     [DefaultConfig EXCEPT !.mServerPort = 0]}

\* the masks handed to SetCategoryMask
Masks == {CategoryBits - eProfilerCategory_Channel, CategoryBits}

NoMsg == [id |-> 0, cat |-> 0]

\* ProfilerDataSnapshot::GenerateMessageId: ++_sMessageIdCounter on the atomic
\* counter, whose new value is the id
GenerateMessageId_same(counter) == counter
GenerateMessageId(counter) == counter + 1

\* Thread::LockMutex on a mutex the caller does not hold returns when no
\* thread holds the mutex
LockGranted_always(holder) == TRUE
LockGranted(holder) == holder = NoThread

MInit ==
    /\ mInitialized = FALSE
    /\ mEnabled = FALSE
    /\ mRunning = FALSE
    /\ updateThread = "null"
    /\ mConfig = DefaultConfig
    /\ dataCollector = FALSE
    /\ messageQueue = TRUE
    /\ mq = <<>>
    /\ mqDropped = 0
    /\ messagesDropped = 0
    /\ totalMessagesSent = 0
    /\ networkServer = FALSE
    /\ localCallback = FALSE
    /\ callbackMutex = NoThread
    /\ recursiveMutex \in BOOLEAN
    /\ messageIdCounter = 0
    /\ userEvent = 0
    /\ mpc = [t \in MThreads |-> IF t = "app" THEN "idle" ELSE "none"]
    /\ plan = [t \in MThreads |-> <<>>]
    /\ pending = [t \in MThreads |-> NoMsg]
    /\ batch = <<>>
    /\ eventCaptures = 0
    /\ crashed = FALSE

\* the application thread is between two calls
AppIdle == ~crashed /\ mpc["app"] = "idle"

\* ------------------------------------------------------------- lifecycle
\* StartNetworkServer as called by Initialize; ok is whether ProfilerServer::Start
\* returned true
StartNetworkServer(ok) ==
    networkServer' = (networkServer \/ ok)

\* StartUpdateThread
StartUpdateThread ==
    IF updateThread # "null"
    THEN UNCHANGED <<mRunning, updateThread, mpc>>
    ELSE /\ mRunning' = TRUE
         /\ updateThread' = "live"
         /\ mpc' = [mpc EXCEPT !["loop"] = "top"]

\* Initialize(config), without the assignment of _updateInterval
InitializeCall(c) ==
    /\ AppIdle
    /\ IF mInitialized
       THEN UNCHANGED mvars
       ELSE /\ mConfig' = c
            /\ IF ~Validate(c)
               THEN UNCHANGED <<mInitialized, mEnabled, mRunning, updateThread,
                                dataCollector, networkServer, mpc>>
               ELSE /\ dataCollector' = TRUE
                    /\ \E ok \in BOOLEAN :
                         IF c.mEnableNetworking /\ ~networkServer /\ ~ok
                         THEN UNCHANGED <<mInitialized, mEnabled, mRunning,
                                          updateThread, networkServer, mpc>>
                         ELSE /\ IF c.mEnableNetworking
                                 THEN StartNetworkServer(ok)
                                 ELSE UNCHANGED networkServer
                              /\ StartUpdateThread
                              /\ mInitialized' = TRUE
                              /\ mEnabled' = TRUE
            /\ UNCHANGED <<messageQueue, mq, mqDropped, messagesDropped,
                           totalMessagesSent, localCallback, callbackMutex,
                           recursiveMutex, messageIdCounter, userEvent, plan,
                           pending, batch, eventCaptures, crashed>>

\* Initialize(config) with the clock left out
Initialize(c) ==
    /\ InitializeCall(c)
    /\ MOnly

\* Deinitialize on a manager that is not initialized: returns at once
DeinitializeNotInitialized ==
    /\ AppIdle
    /\ ~mInitialized
    /\ UNCHANGED mvars
    /\ MOnly

\* Deinitialize: _enabled = false, then StopUpdateThread up to Thread::Wait.
\* Waiting on a handle already released is a use of freed memory: the call
\* crashes or comes back.
DeinitializeBegin ==
    /\ AppIdle
    /\ mInitialized
    /\ mEnabled' = FALSE
    /\ CASE updateThread = "null" ->
              /\ mpc' = [mpc EXCEPT !["app"] = "deinit_rest"]
              /\ UNCHANGED <<mRunning, crashed>>
         [] updateThread = "live" ->
              /\ mRunning' = FALSE
              /\ mpc' = [mpc EXCEPT !["app"] = "deinit_join"]
              /\ UNCHANGED crashed
         [] updateThread = "released" ->
              /\ mRunning' = FALSE
              /\ \/ crashed' = TRUE /\ UNCHANGED mpc
                 \/ mpc' = [mpc EXCEPT !["app"] = "deinit_rest"] /\ UNCHANGED crashed
    /\ UNCHANGED <<mInitialized, updateThread, mConfig, dataCollector, messageQueue,
                   mq, mqDropped, messagesDropped, totalMessagesSent, networkServer,
                   localCallback, callbackMutex, recursiveMutex, messageIdCounter,
                   userEvent, plan, pending, batch, eventCaptures>>
    /\ MOnly

\* Deinitialize: Thread::Wait returns once UpdateLoop has returned; Thread::Release
DeinitializeJoin ==
    /\ ~crashed
    /\ mpc["app"] = "deinit_join"
    /\ mpc["loop"] = "exited"
    /\ updateThread' = "released"
    /\ mpc' = [mpc EXCEPT !["app"] = "deinit_rest", !["loop"] = "none"]
    /\ UNCHANGED <<mInitialized, mEnabled, mRunning, mConfig, dataCollector,
                   messageQueue, mq, mqDropped, messagesDropped, totalMessagesSent,
                   networkServer, localCallback, callbackMutex, recursiveMutex,
                   messageIdCounter, userEvent, plan, pending, batch, eventCaptures, crashed>>
    /\ MOnly

\* Deinitialize: StopNetworkServer, _messageQueue->Clear(), the resets
DeinitializeRest ==
    /\ ~crashed
    /\ mpc["app"] = "deinit_rest"
    /\ IF ~messageQueue
       THEN /\ crashed' = TRUE
            /\ networkServer' = FALSE
            /\ UNCHANGED <<mInitialized, dataCollector, messageQueue, mq, mpc>>
       ELSE /\ networkServer' = FALSE
            /\ mq' = <<>>
            /\ dataCollector' = FALSE
            /\ messageQueue' = FALSE
            /\ mInitialized' = FALSE
            /\ mpc' = [mpc EXCEPT !["app"] = "idle"]
            /\ UNCHANGED crashed
    /\ UNCHANGED <<mEnabled, mRunning, updateThread, mConfig, mqDropped,
                   messagesDropped, totalMessagesSent, localCallback, callbackMutex,
                   recursiveMutex, messageIdCounter, userEvent, plan, pending, batch,
                   eventCaptures>>
    /\ MOnly

\* UpdateConfig(newConfig): an invalid configuration is refused; a valid one
\* is stored, and a change of the network settings stops the server and, with
\* networking enabled, starts one (the result of the start is not looked at)
UpdateConfig(c) ==
    /\ AppIdle
    /\ IF ~Validate(c)
       THEN UNCHANGED <<mConfig, networkServer>>
       ELSE /\ mConfig' = c
            /\ IF \/ mConfig.mEnableNetworking # c.mEnableNetworking
                  \/ mConfig.mServerPort # c.mServerPort
               THEN \E ok \in BOOLEAN :
                       networkServer' = (c.mEnableNetworking /\ ok)
               ELSE UNCHANGED networkServer
    /\ UNCHANGED <<mInitialized, mEnabled, mRunning, updateThread, dataCollector,
                   messageQueue, mq, mqDropped, messagesDropped, totalMessagesSent,
                   localCallback, callbackMutex, recursiveMutex, messageIdCounter,
                   userEvent, mpc, plan, pending, batch, eventCaptures, crashed>>
    /\ MOnly

\* StartNetworkServer() called by the application: the server is started with
\* the port and the client limit _config holds
StartNetworkServerCall ==
    /\ AppIdle
    /\ \E ok \in BOOLEAN : StartNetworkServer(ok)
    /\ UNCHANGED <<mInitialized, mEnabled, mRunning, updateThread, mConfig,
                   dataCollector, messageQueue, mq, mqDropped, messagesDropped,
                   totalMessagesSent, localCallback, callbackMutex, recursiveMutex,
                   messageIdCounter, userEvent, mpc, plan, pending, batch,
                   eventCaptures, crashed>>
    /\ MOnly

\* SetEnabled(enabled)
SetEnabled(b) ==
    /\ AppIdle
    /\ mEnabled' = b
    /\ UNCHANGED <<mInitialized, mRunning, updateThread, mConfig, dataCollector,
                   messageQueue, mq, mqDropped, messagesDropped, totalMessagesSent,
                   networkServer, localCallback, callbackMutex, recursiveMutex,
                   messageIdCounter, userEvent, mpc, plan, pending, batch, eventCaptures, crashed>>
    /\ MOnly

\* a change of one field of _config under _configMutex
SetConfig(c) ==
    /\ AppIdle
    /\ mConfig' = c
    /\ UNCHANGED <<mInitialized, mEnabled, mRunning, updateThread, dataCollector,
                   messageQueue, mq, mqDropped, messagesDropped, totalMessagesSent,
                   networkServer, localCallback, callbackMutex, recursiveMutex,
                   messageIdCounter, userEvent, mpc, plan, pending, batch, eventCaptures, crashed>>
    /\ MOnly

\* SetCategoryMask(categoryMask)
SetCategoryMask(mask) == SetConfig([mConfig EXCEPT !.mCategoryMask = mask])

\* SetUpdateMode(mode)
SetUpdateMode(mode) == SetConfig([mConfig EXCEPT !.mUpdateMode = mode])

\* RegisterMessageCallback(callback) / UnregisterMessageCallback(): the
\* assignment to _localCallback under _callbackMutex
SetLocalCallback(cb) ==
    /\ AppIdle
    /\ LockGranted(callbackMutex)
    /\ localCallback' = cb
    /\ UNCHANGED <<mInitialized, mEnabled, mRunning, updateThread, mConfig,
                   dataCollector, messageQueue, mq, mqDropped, messagesDropped,
                   totalMessagesSent, networkServer, callbackMutex, recursiveMutex,
                   messageIdCounter, userEvent, mpc, plan, pending, batch, eventCaptures, crashed>>
    /\ MOnly

RegisterMessageCallback == SetLocalCallback(TRUE)

UnregisterMessageCallback == SetLocalCallback(FALSE)

\* --------------------------------------------------------------- capture
\* where a thread goes when its list of capture calls is done: the application
\* thread returns to its caller, the update loop goes on to ProcessQueuedMessages
AfterCapture(t) == IF t = "app" THEN "idle" ELSE "process"

\* the next capture call of a multi-call operation, or the end of it
Continue(t, rest) ==
    /\ plan' = [plan EXCEPT ![t] = rest]
    /\ mpc' = [mpc EXCEPT ![t] = IF rest = <<>> THEN AfterCapture(t) ELSE "cap_plan"]

\* the per-id calls of a bulk capture
ExpandBulk(op) ==
    [i \in 1..Len(GetAllIds(op)) |->
        CASE op = "AllEntities" -> "Entity"
          [] op = "AllChannels" -> "Channel"
          [] op = "AllListeners" -> "Listener"]

\* the application enters one of CaptureEngineState, CaptureChannelState(id),
\* CaptureAllChannels, ...
Capture(op) ==
    /\ AppIdle
    /\ plan' = [plan EXCEPT !["app"] = <<op>>]
    /\ mpc' = [mpc EXCEPT !["app"] = "cap_plan"]
    /\ UNCHANGED <<mInitialized, mEnabled, mRunning, updateThread, mConfig,
                   dataCollector, messageQueue, mq, mqDropped, messagesDropped,
                   totalMessagesSent, networkServer, localCallback, callbackMutex,
                   recursiveMutex, messageIdCounter, userEvent, pending, batch,
                   eventCaptures, crashed>>
    /\ MOnly

\* construction of a ProfilerEvent by the application: the base constructor
\* draws the message id
ConstructEvent ==
    /\ AppIdle
    /\ messageIdCounter < MaxMsgs
    /\ messageIdCounter' = GenerateMessageId(messageIdCounter)
    /\ userEvent' = GenerateMessageId(messageIdCounter)
    /\ UNCHANGED <<mInitialized, mEnabled, mRunning, updateThread, mConfig,
                   dataCollector, messageQueue, mq, mqDropped, messagesDropped,
                   totalMessagesSent, networkServer, localCallback, callbackMutex,
                   recursiveMutex, mpc, plan, pending, batch, eventCaptures, crashed>>
    /\ MOnly

\* the application enters CaptureEvent(event) with the event it holds; max
\* bounds the number of such calls in one behaviour
CaptureEventCall(max) ==
    /\ AppIdle
    /\ userEvent # 0
    /\ eventCaptures < max
    /\ eventCaptures' = eventCaptures + 1
    /\ plan' = [plan EXCEPT !["app"] = <<"Event">>]
    /\ mpc' = [mpc EXCEPT !["app"] = "cap_plan"]
    /\ UNCHANGED <<mInitialized, mEnabled, mRunning, updateThread, mConfig,
                   dataCollector, messageQueue, mq, mqDropped, messagesDropped,
                   totalMessagesSent, networkServer, localCallback, callbackMutex,
                   recursiveMutex, messageIdCounter, userEvent, pending, batch,
                   crashed>>
    /\ MOnly

\* CaptureEvent(event)
CaptureEvent == CaptureEventCall(MaxEventCaptures)

\* CaptureFullState
CaptureFullState ==
    /\ AppIdle
    /\ IF mEnabled
       THEN /\ plan' = [plan EXCEPT !["app"] =
                          <<"Engine", "AllEntities", "AllChannels", "AllListeners",
                            "Performance">>]
            /\ mpc' = [mpc EXCEPT !["app"] = "cap_plan"]
       ELSE UNCHANGED <<plan, mpc>>
    /\ UNCHANGED <<mInitialized, mEnabled, mRunning, updateThread, mConfig,
                   dataCollector, messageQueue, mq, mqDropped, messagesDropped,
                   totalMessagesSent, networkServer, localCallback, callbackMutex,
                   recursiveMutex, messageIdCounter, userEvent, pending, batch,
                   eventCaptures, crashed>>
    /\ MOnly

\* One Capture* call, the head of the thread's list, up to the point where it
\* has its snapshot: the enabled and category test, the collector test, the
\* collection (which draws the message id).  CaptureEvent copies the caller's
\* event and does not test the collector.
CaptureCall(t) ==
    /\ ~crashed
    /\ mpc[t] = "cap_plan"
    /\ LET op == Head(plan[t])
           rest == Tail(plan[t])
       IN IF ~mEnabled \/ ~ShouldCaptureCategory(mConfig.mCategoryMask, OpCategory(op))
          THEN /\ Continue(t, rest)
               /\ UNCHANGED <<messageIdCounter, pending>>
          ELSE IF op = "Event"
          THEN /\ pending' = [pending EXCEPT ![t] = [id |-> userEvent,
                                                     cat |-> OpCategory(op)]]
               /\ plan' = [plan EXCEPT ![t] = rest]
               /\ mpc' = [mpc EXCEPT ![t] = "cap_push"]
               /\ UNCHANGED messageIdCounter
          ELSE IF ~dataCollector
          THEN /\ Continue(t, rest)
               /\ UNCHANGED <<messageIdCounter, pending>>
          ELSE IF op \in BulkOps
          THEN /\ Continue(t, ExpandBulk(op) \o rest)
               /\ UNCHANGED <<messageIdCounter, pending>>
          ELSE /\ messageIdCounter < MaxMsgs
               /\ messageIdCounter' = GenerateMessageId(messageIdCounter)
               /\ pending' = [pending EXCEPT ![t] =
                                [id |-> GenerateMessageId(messageIdCounter),
                                 cat |-> OpCategory(op)]]
               /\ plan' = [plan EXCEPT ![t] = rest]
               /\ mpc' = [mpc EXCEPT ![t] = "cap_push"]
    /\ UNCHANGED <<mInitialized, mEnabled, mRunning, updateThread, mConfig,
                   dataCollector, messageQueue, mq, mqDropped, messagesDropped,
                   totalMessagesSent, networkServer, localCallback, callbackMutex,
                   recursiveMutex, userEvent, batch, eventCaptures, crashed>>
    /\ MOnly

\* QueueMessage(snapshot) on a queue whose maximum is max: PushMessage on the
\* queue, messagesDropped on refusal
PushSnapshot(t, max) ==
    /\ ~crashed
    /\ mpc[t] = "cap_push"
    /\ pending' = [pending EXCEPT ![t] = NoMsg]
    /\ IF ~messageQueue
       THEN /\ crashed' = TRUE
            /\ UNCHANGED <<mq, mqDropped, messagesDropped, mpc, plan>>
       ELSE /\ IF QueueFull(mq, max)
               THEN /\ mqDropped' = mqDropped + 1
                    /\ messagesDropped' = messagesDropped + 1
                    /\ UNCHANGED mq
               ELSE /\ mq' = Append(mq, pending[t])
                    /\ UNCHANGED <<mqDropped, messagesDropped>>
            /\ Continue(t, plan[t])
            /\ UNCHANGED crashed
    /\ UNCHANGED <<mInitialized, mEnabled, mRunning, updateThread, mConfig,
                   dataCollector, messageQueue, totalMessagesSent, networkServer,
                   localCallback, callbackMutex, recursiveMutex, messageIdCounter,
                   userEvent, batch, eventCaptures>>
    /\ MOnly

\* QueueMessage(snapshot)
QueueMessage(t) == PushSnapshot(t, MgrQueueMax)

\* ----------------------------------------------------------- update loop
\* the capture calls CollectTimedUpdates makes, from the capture flags
TimedPlan(c) ==
    (IF c.mCaptureEngineState THEN <<"Engine">> ELSE <<>>)
    \o <<"AllEntities", "AllChannels", "AllListeners">>
    \o (IF c.mCapturePerformanceMetrics THEN <<"Performance">> ELSE <<>>)

\* the kinds of object whose state CollectOnChangeUpdates would compare with
\* _lastEntityStates, _lastChannelStates and _lastListenerStates
ChangeKinds == {"Entity", "Channel", "Listener"}

\* the capture calls CollectOnChangeUpdates makes when the objects of the kinds
\* in changed have moved beyond the thresholds: none, the function has no body
CollectOnChangeUpdates(changed) == <<>>

\* shouldUpdate after the mode switch of UpdateLoop; elapsed is
\* deltaTime >= interval
ShouldUpdate_always(mode, elapsed) == TRUE
ShouldUpdate(mode, elapsed) ==
    CASE mode = "Timed" -> elapsed
      [] mode = "PerFrame" -> TRUE
      [] OTHER -> FALSE

\* One pass of UpdateLoop from the loop test to the call of
\* ProcessQueuedMessages: the mode switch, CollectOnChangeUpdates in OnChange
\* mode, CollectTimedUpdates (which returns at once when capturing is
\* disabled) when shouldUpdate is set.
UpdateLoopStep(elapsed, changed) ==
    /\ ~crashed
    /\ mpc["loop"] = "top"
    /\ IF ~mRunning
       THEN /\ mpc' = [mpc EXCEPT !["loop"] = "exited"]
            /\ UNCHANGED plan
       ELSE LET calls ==
                  (IF mConfig.mUpdateMode = "OnChange"
                   THEN CollectOnChangeUpdates(changed) ELSE <<>>)
                  \o (IF ShouldUpdate(mConfig.mUpdateMode, elapsed) /\ mEnabled
                      THEN TimedPlan(mConfig) ELSE <<>>)
            IN IF calls # <<>>
               THEN /\ plan' = [plan EXCEPT !["loop"] = calls]
                    /\ mpc' = [mpc EXCEPT !["loop"] = "cap_plan"]
               ELSE /\ mpc' = [mpc EXCEPT !["loop"] = "process"]
                    /\ UNCHANGED plan
    /\ UNCHANGED <<mInitialized, mEnabled, mRunning, updateThread, mConfig,
                   dataCollector, messageQueue, mq, mqDropped, messagesDropped,
                   totalMessagesSent, networkServer, localCallback, callbackMutex,
                   recursiveMutex, messageIdCounter, userEvent, pending, batch,
                   eventCaptures, crashed>>

\* UpdateLoop with the clock left out: whether the interval has elapsed in
\* Timed mode is the clock's choice
UpdateLoop ==
    /\ \E elapsed \in BOOLEAN, changed \in SUBSET ChangeKinds :
          UpdateLoopStep(elapsed, changed)
    /\ MOnly

\* UpdateLoop with the clock: deltaTime = currentTime - _lastUpdate, and
\* _lastUpdate = currentTime when shouldUpdate is set
UpdateLoopTimed ==
    LET elapsed == now - lastUpdate >= updateInterval
    IN /\ \E changed \in SUBSET ChangeKinds : UpdateLoopStep(elapsed, changed)
       /\ lastUpdate' = IF mRunning /\ ShouldUpdate(mConfig.mUpdateMode, elapsed)
                        THEN now ELSE lastUpdate
       /\ UNCHANGED <<now, updateInterval>>
       /\ TOnly

\* time passes
Tick ==
    /\ now < MaxTime
    /\ now' = now + 1
    /\ UNCHANGED <<lastUpdate, updateInterval, mvars>>
    /\ TOnly

\* 1.0f / frequencyHz in ticks of 1/60 s; the quotient by 0.0f is +infinity,
\* an interval no elapsed time reaches
IntervalOf(frequencyHz) ==
    IF frequencyHz = 0 THEN MaxTime + 1 ELSE 60 \div frequencyHz

\* SetUpdateFrequency(frequencyHz): the frequency is stored in _config and
\* _updateInterval = 1.0f / frequencyHz, without a test of the argument
SetUpdateFrequency(frequencyHz) ==
    /\ AppIdle
    /\ mConfig' = [mConfig EXCEPT !.mUpdateFrequencyHz = frequencyHz]
    /\ updateInterval' = IntervalOf(frequencyHz)
    /\ UNCHANGED <<now, lastUpdate>>
    /\ UNCHANGED <<mInitialized, mEnabled, mRunning, updateThread, dataCollector,
                   messageQueue, mq, mqDropped, messagesDropped, totalMessagesSent,
                   networkServer, localCallback, callbackMutex, recursiveMutex,
                   messageIdCounter, userEvent, mpc, plan, pending, batch,
                   eventCaptures, crashed>>
    /\ TOnly

\* Initialize(config) with the clock: a configuration that passes Validate
\* sets _updateInterval = 1.0f / _config.mUpdateFrequencyHz
InitializeTimed(c) ==
    /\ InitializeCall(c)
    /\ updateInterval' = IF ~mInitialized /\ Validate(c)
                         THEN IntervalOf(c.mUpdateFrequencyHz) ELSE updateInterval
    /\ UNCHANGED <<now, lastUpdate>>
    /\ TOnly

\* ProcessQueuedMessages: PopMessages(mMaxMessagesPerFrame); with nothing popped
\* the loop sleeps and tests _running again
ProcessQueuedMessages ==
    /\ ~crashed
    /\ mpc["loop"] = "process"
    /\ IF ~messageQueue
       THEN /\ crashed' = TRUE
            /\ UNCHANGED <<mq, batch, mpc>>
       ELSE LET n == PopCount(mq, mConfig.mMaxMessagesPerFrame)
            IN /\ batch' = SubSeq(mq, 1, n)
               /\ mq' = SubSeq(mq, n + 1, Len(mq))
               /\ mpc' = [mpc EXCEPT !["loop"] = IF n = 0 THEN "top" ELSE "dist"]
               /\ UNCHANGED crashed
    /\ UNCHANGED <<mInitialized, mEnabled, mRunning, updateThread, mConfig,
                   dataCollector, messageQueue, mqDropped, messagesDropped,
                   totalMessagesSent, networkServer, localCallback, callbackMutex,
                   recursiveMutex, messageIdCounter, userEvent, plan, pending,
                   eventCaptures>>
    /\ MOnly

\* DistributeMessage: totalMessagesSent++, then LockMutex(_callbackMutex)
DistributeMessage ==
    /\ ~crashed
    /\ mpc["loop"] = "dist"
    /\ LockGranted(callbackMutex)
    /\ totalMessagesSent' = totalMessagesSent + 1
    /\ callbackMutex' = "loop"
    /\ mpc' = [mpc EXCEPT !["loop"] = "dist_locked"]
    /\ UNCHANGED <<mInitialized, mEnabled, mRunning, updateThread, mConfig,
                   dataCollector, messageQueue, mq, mqDropped, messagesDropped,
                   networkServer, localCallback, recursiveMutex, messageIdCounter,
                   userEvent, plan, pending, batch, eventCaptures, crashed>>
    /\ MOnly

\* DistributeMessage: if (_localCallback) _localCallback(message): the call is
\* entered with _callbackMutex held
InvokeLocalCallback ==
    /\ ~crashed
    /\ mpc["loop"] = "dist_locked"
    /\ mpc' = [mpc EXCEPT !["loop"] = IF localCallback THEN "in_cb"
                                                                ELSE "dist_unlock"]
    /\ UNCHANGED <<mInitialized, mEnabled, mRunning, updateThread, mConfig,
                   dataCollector, messageQueue, mq, mqDropped, messagesDropped,
                   totalMessagesSent, networkServer, localCallback, callbackMutex,
                   recursiveMutex, messageIdCounter, userEvent, plan, pending, batch,
                   eventCaptures, crashed>>
    /\ MOnly

\* the registered function runs: it returns, or it calls
\* UnregisterMessageCallback first, whose LockMutex(_callbackMutex) is granted
\* to the holder only by a re-entrant mutex
LocalCallbackBody ==
    /\ ~crashed
    /\ mpc["loop"] = "in_cb"
    /\ \E unregisters \in BOOLEAN :
         IF unregisters
         THEN IF recursiveMutex
              THEN /\ localCallback' = FALSE
                   /\ mpc' = [mpc EXCEPT !["loop"] = "dist_unlock"]
              ELSE /\ mpc' = [mpc EXCEPT !["loop"] = "cb_blocked"]
                   /\ UNCHANGED localCallback
         ELSE /\ mpc' = [mpc EXCEPT !["loop"] = "dist_unlock"]
              /\ UNCHANGED localCallback
    /\ UNCHANGED <<mInitialized, mEnabled, mRunning, updateThread, mConfig,
                   dataCollector, messageQueue, mq, mqDropped, messagesDropped,
                   totalMessagesSent, networkServer, callbackMutex, recursiveMutex,
                   messageIdCounter, userEvent, plan, pending, batch, eventCaptures,
                   crashed>>
    /\ MOnly

\* DistributeMessage: UnlockMutex(_callbackMutex), the broadcast to the server
\* if there is one, and the next message of the batch
DistributeMessageEnd ==
    /\ ~crashed
    /\ mpc["loop"] = "dist_unlock"
    /\ callbackMutex' = NoThread
    /\ batch' = Tail(batch)
    /\ mpc' = [mpc EXCEPT !["loop"] = IF Tail(batch) = <<>> THEN "top" ELSE "dist"]
    /\ UNCHANGED <<mInitialized, mEnabled, mRunning, updateThread, mConfig,
                   dataCollector, messageQueue, mq, mqDropped, messagesDropped,
                   totalMessagesSent, networkServer, localCallback, recursiveMutex,
                   messageIdCounter, userEvent, plan, pending, eventCaptures, crashed>>
    /\ MOnly

MNext ==
    \/ \E c \in Configs : Initialize(c)
    \/ DeinitializeNotInitialized
    \/ DeinitializeBegin
    \/ DeinitializeJoin
    \/ DeinitializeRest
    \/ \E b \in BOOLEAN : SetEnabled(b)
    \/ \E mask \in Masks : SetCategoryMask(mask)
    \/ RegisterMessageCallback
    \/ UnregisterMessageCallback
    \/ \E op \in AppCaptureOps : Capture(op)
    \/ ConstructEvent
    \/ CaptureEvent
    \/ CaptureFullState
    \/ \E t \in MThreads : CaptureCall(t)
    \/ \E t \in MThreads : QueueMessage(t)
    \/ UpdateLoop
    \/ ProcessQueuedMessages
    \/ DistributeMessage
    \/ InvokeLocalCallback
    \/ LocalCallbackBody
    \/ DistributeMessageEnd

\* the application thread with the lifecycle and configuration calls only, and
\* the update thread; no callback is registered
\* the steps of the update thread in Manual mode, where it collects nothing
\* itself
LLoop ==
    \/ UpdateLoop
    \/ ProcessQueuedMessages
    \/ DistributeMessage
    \/ InvokeLocalCallback
    \/ LocalCallbackBody
    \/ DistributeMessageEnd

\* the application initializes in Manual mode, registers a callback, captures
\* and deinitializes next to the update thread
LNext ==
    \/ \E c \in {k \in Configs : k.mUpdateMode = "Manual"} : Initialize(c)
    \/ DeinitializeBegin
    \/ DeinitializeJoin
    \/ DeinitializeRest
    \/ RegisterMessageCallback
    \/ \E op \in AppCaptureOps : Capture(op)
    \/ CaptureCall("app")
    \/ QueueMessage("app")
    \/ LLoop

\* the update loop in every update mode, with a queue that holds one message
\* more than in MNext
UNext ==
    \/ \E c \in Configs : Initialize(c)
    \/ \E mode \in UpdateModes : SetUpdateMode(mode)
    \/ \E b \in BOOLEAN : SetEnabled(b)
    \/ \E op \in AppCaptureOps : Capture(op)
    \/ \E t \in MThreads : CaptureCall(t)
    \/ \E t \in MThreads : PushSnapshot(t, MgrQueueMax + 1)
    \/ UpdateLoop
    \/ ProcessQueuedMessages
    \/ DistributeMessage
    \/ InvokeLocalCallback
    \/ DistributeMessageEnd

\* the application constructs an event and captures it more than once, next
\* to the update thread
VNext ==
    \/ \E c \in Configs : Initialize(c)
    \/ ConstructEvent
    \/ CaptureEventCall(MaxEventCaptures + 1)
    \/ \E t \in MThreads : CaptureCall(t)
    \/ \E t \in MThreads : QueueMessage(t)
    \/ UpdateLoop
    \/ ProcessQueuedMessages
    \/ DistributeMessage
    \/ InvokeLocalCallback
    \/ DistributeMessageEnd

\* the update loop with the clock
TNext ==
    \/ \E c \in Configs : InitializeTimed(c)
    \/ \E mode \in UpdateModes : SetUpdateMode(mode)
    \/ \E b \in BOOLEAN : SetEnabled(b)
    \/ \E frequencyHz \in {0, 30, 60} : SetUpdateFrequency(frequencyHz)
    \/ Tick
    \/ UpdateLoopTimed
    \/ \E t \in MThreads : CaptureCall(t)
    \/ \E t \in MThreads : QueueMessage(t)
    \/ ProcessQueuedMessages
    \/ DistributeMessage
    \/ InvokeLocalCallback
    \/ DistributeMessageEnd

CNext ==
    \/ \E c \in Configs : Initialize(c)
    \/ DeinitializeNotInitialized
    \/ DeinitializeBegin
    \/ DeinitializeJoin
    \/ DeinitializeRest
    \/ \E c \in Configs : UpdateConfig(c)
    \/ StartNetworkServerCall
    \/ \E b \in BOOLEAN : SetEnabled(b)
    \/ \E t \in MThreads : CaptureCall(t)
    \/ \E t \in MThreads : QueueMessage(t)
    \/ UpdateLoop
    \/ ProcessQueuedMessages
    \/ DistributeMessage
    \/ InvokeLocalCallback
    \/ DistributeMessageEnd

\* ----------------------------------------------------------------------
\* the category bit of a mask, computed by remainder
HasBit(mask, category) == mask % (2 * category) >= category

\* thread t takes the step of a Capture* call that tests and collects
AtCaptureCall(t) == mpc[t] = "cap_plan" /\ plan'[t] # plan[t]

\* thread t takes the QueueMessage step of a Capture* call
AtQueueMessage(t) == mpc[t] = "cap_push" /\ pending'[t] # pending[t]

\* the capture call at the head of t's list is made with capturing enabled and
\* its category in the mask
CapturePasses(t) ==
    mEnabled /\ HasBit(mConfig.mCategoryMask, OpCategory(Head(plan[t])))

C9_NoCallbackUnderLock ==
    \A t \in MThreads :
        mpc[t] \in {"in_cb", "cb_blocked"} => callbackMutex # t

\* ----------------------------------------------------------------------
\* the message ids of the snapshots that exist: those a thread has built and
\* not yet pushed, the queued ones, the popped ones and the application's event
KnownIds ==
    ({pending[t].id : t \in MThreads} \cup {mq[i].id : i \in 1..Len(mq)}
        \cup {batch[i].id : i \in 1..Len(batch)} \cup {userEvent}) \ {0}

\* thread t constructs a snapshot in this step: a capture call that collects,
\* or the application's construction of an event
Constructs(t) ==
    \/ mpc[t] = "cap_plan" /\ mpc'[t] = "cap_push" /\ Head(plan[t]) # "Event"
    \/ t = "app" /\ mpc[t] = "idle" /\ userEvent' # userEvent

\* the id of the snapshot thread t constructs in this step
Constructed(t) == IF mpc[t] = "cap_plan" THEN pending'[t].id ELSE userEvent'

\* C17: a snapshot constructed by any thread takes an id greater than every id
\* generated before it, so that ids are pairwise distinct across threads and
\* strictly increasing on each thread; every id in use has been generated
C17_MessageIdsDistinct ==
    [][/\ \A t \in MThreads :
            Constructs(t) => /\ Constructed(t) > messageIdCounter
                             /\ \A k \in KnownIds : Constructed(t) > k
       /\ \A k \in KnownIds : k <= messageIdCounter]_vars

\* C17 witness: both threads hold a snapshot they have constructed and not yet
\* pushed, the update thread's being the later one
C17_Witness ==
    /\ mpc["app"] = "cap_push" /\ mpc["loop"] = "cap_push"
    /\ pending["app"].id # 0
    /\ pending["loop"].id > pending["app"].id

\* C18: the messages the update thread has popped and those still queued are
\* in creation order: the message ids of the snapshots the capture operations
\* built themselves (all but the caller's events) are strictly increasing in
\* the order of their distribution
C18_DistributionInCreationOrder ==
    LET order == batch \o mq
    IN \A i, j \in 1..Len(order) :
          (i < j /\ order[i].cat # eProfilerCategory_Events
                 /\ order[j].cat # eProfilerCategory_Events) =>
              order[i].id < order[j].id

\* C19: the one callback slot is read under _callbackMutex.  A message the
\* update thread distributes is passed to the callback exactly when one is
\* registered at that moment, on the update thread, and the callback stays
\* registered while it runs (no UnregisterMessageCallback returns meanwhile);
\* the popped messages are handed on one by one from the front
C19_CallbackGetsEachMessageOnce ==
    [][/\ (mpc["loop"] = "dist_locked" /\ mpc'["loop"] # "dist_locked") =>
            (mpc'["loop"] = "in_cb" <=> localCallback)
       /\ mpc'["loop"] = "in_cb" => (localCallback' /\ callbackMutex' = "loop")
       /\ mpc'["app"] # "in_cb"
       /\ batch' # batch =>
            \/ mpc["loop"] = "process" /\ batch = <<>> /\ mq = batch' \o mq'
            \/ mpc["loop"] = "dist_unlock" /\ batch' = Tail(batch)]_vars

\* C19 witness: the callback runs for a popped message while another message
\* waits in the queue
C19_Witness ==
    /\ mpc["loop"] = "in_cb"
    /\ localCallback
    /\ batch # <<>>
    /\ mq # <<>>

\* C15: no call replaces a stored configuration for which Validate() is true
\* by one for which it is false: Initialize and UpdateConfig given an invalid
\* configuration leave the stored one as it was
C15_InvalidConfigNotStored ==
    [][Validate(mConfig) => Validate(mConfig')]_vars

\* C16: an Initialize call that returns false (the manager was not initialized
\* and is not after the call) leaves IsEnabled() false, no update thread
\* running and no server
C16_FailedInitializeLeavesNothing ==
    [][\A c \in Configs :
          (~mInitialized /\ Initialize(c) /\ ~mInitialized') =>
              (~mEnabled' /\ updateThread' # "live" /\ ~networkServer')]_vars

\* C21: a configuration with networking enabled and port 0 or client limit 0
\* fails Validate, and whenever the manager starts a server, the port and the
\* client limit it hands to ProfilerServer::Start are not 0
C21_NoServerOnPortZero ==
    /\ \A c \in Configs :
          (c.mEnableNetworking /\ (c.mServerPort = 0 \/ c.mMaxClients = 0))
              => ~Validate(c)
    /\ [][(~networkServer /\ networkServer') =>
              (mConfig'.mServerPort # 0 /\ mConfig'.mMaxClients # 0)]_vars

\* C28: in every update mode an iteration of the update loop that finds
\* _running set goes on to ProcessQueuedMessages, through the automatic capture
\* only in Timed and PerFrame mode with capturing enabled, and otherwise at
\* once, whether capturing is enabled or not.  ProcessQueuedMessages pops the
\* oldest messages of the queue, at most mMaxMessagesPerFrame of them and that
\* many when the queue holds more.  Each popped message is counted and
\* distributed once, the oldest first: a distribution starts on the head of the
\* batch and ends with its removal.
C28_LoopDrainsQueue ==
    [][/\ (mpc["loop"] = "top" /\ mpc'["loop"] # "top" /\ mRunning) =>
             /\ mpc'["loop"] \in {"cap_plan", "process"}
             /\ mpc'["loop"] = "cap_plan" =>
                   (mEnabled /\ mConfig.mUpdateMode \in {"Timed", "PerFrame"})
             /\ ~mEnabled => mpc'["loop"] = "process"
       /\ (mpc["loop"] = "process" /\ mpc'["loop"] # "process") =>
             /\ Len(batch') <= mConfig.mMaxMessagesPerFrame
             /\ mq = batch' \o mq'
             /\ mq' # <<>> => Len(batch') = mConfig.mMaxMessagesPerFrame
             /\ mpc'["loop"] = (IF batch' = <<>> THEN "top" ELSE "dist")
       /\ totalMessagesSent' # totalMessagesSent =>
             /\ mpc["loop"] = "dist" /\ mpc'["loop"] = "dist_locked"
             /\ batch # <<>> /\ batch' = batch
             /\ totalMessagesSent' = totalMessagesSent + 1
       /\ (mpc["loop"] = "dist" /\ mpc'["loop"] # "dist") =>
             totalMessagesSent' = totalMessagesSent + 1
       /\ (batch # <<>> /\ batch' # batch) =>
             /\ mpc["loop"] = "dist_unlock" /\ batch' = Tail(batch)
             /\ mpc'["loop"] = (IF batch' = <<>> THEN "top" ELSE "dist")
       /\ (mpc["loop"] = "dist_unlock" /\ mpc'["loop"] # "dist_unlock") =>
             batch' = Tail(batch)]_vars

\* C28 witness: in OnChange mode with capturing disabled the loop has popped
\* mMaxMessagesPerFrame messages and left a message in the queue
C28_Witness ==
    /\ mConfig.mUpdateMode = "OnChange"
    /\ ~mEnabled
    /\ mpc["loop"] = "dist"
    /\ Len(batch) = mConfig.mMaxMessagesPerFrame
    /\ mq # <<>>

C30_OnChangeCapturesChanged ==
    [][\A changed \in SUBSET ChangeKinds :
          (/\ mRunning /\ mEnabled /\ mConfig.mUpdateMode = "OnChange"
           /\ \E elapsed \in BOOLEAN : UpdateLoopStep(elapsed, changed)) =>
              /\ Range(plan'["loop"]) = changed
              /\ mpc'["loop"] = (IF changed = {} THEN "process" ELSE "cap_plan")]_vars

\* C23: an Initialize call with a valid configuration on a manager that is
\* not initialized leaves the local path usable, whether or not the server
\* could be started: the update thread runs and capturing is enabled
C23_LocalPathSurvivesServerFailure ==
    [][\A c \in Configs :
          (~mInitialized /\ Validate(c) /\ Initialize(c)) =>
              (mInitialized' /\ mEnabled' /\ updateThread' = "live"
               /\ mpc'["loop"] # "none")]_vars

\* C31: while the manager is initialized its queue holds at most
\* _config.mMaxQueuedMessages messages, and a snapshot pushed when the queue
\* holds that many is dropped and counted in messagesDropped
C31_QueueWithinConfiguredMax ==
    /\ [](mInitialized => Len(mq) <= mConfig.mMaxQueuedMessages)
    /\ [][\A t \in MThreads :
            (/\ mInitialized /\ AtQueueMessage(t) /\ messageQueue
             /\ Len(mq) >= mConfig.mMaxQueuedMessages) =>
                (mq' = mq /\ messagesDropped' = messagesDropped + 1)]_vars

\* C32: the messages that have entered the queue and are not yet distributed
\* carry pairwise distinct message ids, also when CaptureEvent is called again
\* with the same ProfilerEvent object
C32_QueuedIdsDistinct ==
    LET held == batch \o mq
    IN \A i, j \in 1..Len(held) : i # j => held[i].id # held[j].id

\* C33: whenever the manager is initialized and no Deinitialize call is under
\* way, its message queue exists and its update thread is live and running
\* UpdateLoop, after any sequence of Initialize and Deinitialize calls; and
\* Deinitialize waits for a live thread only
C33_InitializedHasQueueAndLoop ==
    /\ (mInitialized /\ AppIdle) =>
          /\ messageQueue
          /\ updateThread = "live" /\ mRunning
          /\ mpc["loop"] \notin {"none", "exited"}
    /\ mpc["app"] = "deinit_join" => updateThread = "live"
    /\ ~crashed

\* C34: the configuration the manager holds passes Validate, and the interval
\* of the update loop is 1 / mUpdateFrequencyHz of that configuration, after
\* any sequence of Initialize, SetUpdateFrequency and SetUpdateMode calls
C34_StoredConfigValid ==
    /\ Validate(mConfig)
    /\ updateInterval = IntervalOf(mConfig.mUpdateFrequencyHz)

\* the messages ProcessQueuedMessages has popped and DistributeMessage has not
\* yet counted in totalMessagesSent
Undistributed ==
    Len(batch) - (IF mpc["loop"] \in {"dist_locked", "in_cb", "cb_blocked", "dist_unlock"}
                  THEN 1 ELSE 0)

\* the messages the statistics, the queue and the update thread account for
Accounted == totalMessagesSent + messagesDropped + Len(mq) + Undistributed

\* C38: while the manager is initialized, every snapshot a capture call hands
\* to QueueMessage (the call has passed the enabled and category tests) adds
\* one to the sum of totalMessagesSent, messagesDropped, the messages in the
\* queue and the messages popped and not yet distributed, and nothing else
\* changes that sum; messagesDropped is the queue's own count of drops
C38_CapturesAccountedFor ==
    /\ [](mInitialized => messagesDropped = mqDropped)
    /\ [][(mInitialized /\ mInitialized') =>
             Accounted' = Accounted
                            + Cardinality({t \in MThreads : AtQueueMessage(t)})]_vars

\* whether the update thread is in UpdateLoop
LoopRuns == mpc["loop"] \notin {"none", "exited"}

\* C39: with the update thread scheduled fairly, a message the queue has
\* accepted does not stay there while the loop runs: the queue is emptied and
\* every popped message is counted in totalMessagesSent and handed to the
\* callback, or Deinitialize ends the loop and discards what is left
C39_AcceptedEventuallyDistributed ==
    (LoopRuns /\ mq # <<>>) ~> ((mq = <<>> /\ Undistributed = 0) \/ ~LoopRuns)

\* C40: a capture call that runs while Deinitialize is under way, or that is
\* issued after Deinitialize has returned (and SetEnabled(true) has switched
\* capturing on again), never reaches QueueMessage with a message queue that
\* Deinitialize has released: it enqueues into a live queue or does nothing
C40_CaptureNeverUsesReleased ==
    \A t \in MThreads :
       (/\ mpc[t] = "cap_push"
        /\ ~mInitialized \/ mpc["app"] \in {"deinit_join", "deinit_rest"}) =>
           messageQueue

\* ======================================================================
\* ProfilerServer
\* ======================================================================
\* Three threads: "app" makes the lifecycle calls (Start, Stop,
\* DisconnectClient, SetOn*), "bcast" calls BroadcastMessage (it runs in SpecB
\* only, next to an application thread that starts and stops), and "loop" is
\* the accept thread, which runs the uWebSockets event loop and with it the
\* open and close handlers and the deferred callbacks.  A web socket is known
\* by the client id its open handler stored in its user data.  Calls into
\* uWebSockets are single steps: ws->close() and App::close() run the close
\* handler of each socket they close before they return, on the calling thread.

\* ---------------------------------------------------------------- bounds
\* Number of connections that reach the open handler in one behaviour.
MaxIds == 2
\* Number of BroadcastMessage calls.
MaxBroadcasts == 1

SThreads == {"app", "bcast", "loop"}

\* the maxClients arguments handed to Start
MaxClientsArgs == {1, 2}

\* _generateClientId: the value _nextClientId holds after fetch_add(1)
NextClientId_stuck(n) == n
NextClientId(n) == n + 1

\* the keys of _clients in the order a loop over the table visits them; the
\* std::unordered_map leaves the order open and the visits are alike, so one
\* order stands for all
RECURSIVE InOrder(_)
InOrder(S) ==
    IF S = {} THEN <<>>
    ELSE LET least == CHOOSE x \in S : \A y \in S : x <= y
         IN <<least>> \o InOrder(S \ {least})

\* the table without the session of id
Erase(table, id) == [k \in DOMAIN table \ {id} |-> table[k]]

SInit ==
    /\ sRunning = FALSE
    /\ maxClients = 8
    /\ nextClientId = 1
    /\ clients = <<>>
    /\ totalSent = 0
    /\ statistics = [mTotalConnections |-> 0, mTotalDisconnections |-> 0,
                     mActiveConnections |-> 0]
    /\ gSocket = FALSE
    /\ gLoop = FALSE
    /\ listening = FALSE
    /\ sockets = {}
    /\ deferred = <<>>
    /\ clientsMutex = NoThread
    /\ callbacksMutex = NoThread
    /\ onConnected = FALSE
    /\ onDisconnected = FALSE
    /\ spc = [t \in SThreads |-> IF t = "loop" THEN "none" ELSE "idle"]
    /\ cur = [t \in SThreads |-> 0]
    /\ bq = <<>>
    /\ success = "none"
    /\ sentCount = 0
    /\ assigned = <<>>
    /\ before = {}
    /\ broadcasts = 0
    /\ stopped = FALSE
    /\ errorReported = FALSE
    /\ invoked = [connected |-> {}, disconnected |-> [id \in 1..MaxIds |-> 0]]
    /\ sCrashed = FALSE

\* the statistics update of _addClient, of DisconnectClient and of the close
\* handler: n increments of a counter, and mActiveConnections = _clients.size()
UpdateStatistics(counter, n, size) ==
    statistics' = [statistics EXCEPT ![counter] = @ + n,
                                     !.mActiveConnections = size]

\* _onClientConnected(clientId, info) or _onClientDisconnected(clientId,
\* clientInfo) is invoked for each of ids, if the callback is set
Invoke(isSet, counter, ids) ==
    invoked' =
        IF ~isSet THEN invoked
        ELSE IF counter = "mTotalConnections"
        THEN [invoked EXCEPT !.connected = @ \cup ids]
        ELSE [invoked EXCEPT !.disconnected =
                 [id \in 1..MaxIds |-> IF id \in ids THEN @[id] + 1 ELSE @[id]]]

\* thread t is at position p
At(t, p) == ~sCrashed /\ spc[t] = p

Goto(t, p) == spc' = [spc EXCEPT ![t] = p]

\* ------------------------------------------------------- Start and Stop
\* Start(port, bindAddress, maxClients).  _running is stored by the accept
\* thread, so a Start that finds it false may find an accept thread that has
\* not stored it yet: that call replaces the uWS::App the thread was created
\* for and creates a second accept thread on the same event loop.
Start(m) ==
    /\ At("app", "idle")
    /\ IF sRunning
       THEN UNCHANGED <<maxClients, gSocket, gLoop, listening, sockets, spc, before,
                        stopped, errorReported, sCrashed>>
       ELSE /\ maxClients' = m
            /\ gSocket' = TRUE
            /\ listening' = FALSE
            /\ sockets' = {}
            /\ gLoop' = TRUE
            /\ before' = Range(assigned)
            /\ stopped' = FALSE
            /\ errorReported' = FALSE
            /\ IF spc["loop"] \in {"none", "ended"}
               THEN /\ Goto("loop", "listen")
                    /\ UNCHANGED sCrashed
               ELSE /\ sCrashed' = TRUE
                    /\ UNCHANGED spc
    /\ UNCHANGED <<sRunning, nextClientId, clients, totalSent, deferred,
                   clientsMutex, callbacksMutex, onConnected, onDisconnected, cur,
                   bq, success, sentCount, assigned, broadcasts>>
    /\ UNCHANGED <<statistics, invoked>>
    /\ SOnly

\* Stop on a server whose _running is false: returns at once
StopNotRunning ==
    /\ At("app", "idle")
    /\ ~sRunning
    /\ stopped' = TRUE
    /\ UNCHANGED <<sRunning, maxClients, nextClientId, clients, totalSent, gSocket,
                   gLoop, listening, sockets, deferred, clientsMutex,
                   callbacksMutex, onConnected, onDisconnected, spc, cur, bq,
                   success, sentCount, assigned, before, broadcasts, sCrashed,
                   errorReported>>
    /\ UNCHANGED <<statistics, invoked>>
    /\ SOnly

\* Stop: _running = false
Stop ==
    /\ At("app", "idle")
    /\ sRunning
    /\ sRunning' = FALSE
    /\ Goto("app", "stop_disconnect")
    /\ UNCHANGED <<maxClients, nextClientId, clients, totalSent, gSocket, gLoop,
                   listening, sockets, deferred, clientsMutex, callbacksMutex,
                   onConnected, onDisconnected, cur, bq, success, sentCount,
                   assigned, before, broadcasts, stopped, sCrashed,
                   errorReported>>
    /\ UNCHANGED <<statistics, invoked>>
    /\ SOnly

\* Stop: _disconnectAllClients
DisconnectAllClients ==
    /\ At("app", "stop_disconnect")
    /\ clientsMutex = NoThread
    /\ LET socketsToClose == InOrder(DOMAIN clients)
       IN deferred' = IF gLoop
                      THEN deferred \o [i \in 1..Len(socketsToClose) |->
                                           [op |-> "close", id |-> socketsToClose[i]]]
                      ELSE deferred
    /\ clients' = <<>>
    /\ Goto("app", "stop_close")
    /\ UNCHANGED <<sRunning, maxClients, nextClientId, totalSent, gSocket, gLoop,
                   listening, sockets, clientsMutex, callbacksMutex, onConnected,
                   onDisconnected, cur, bq, success, sentCount, assigned, before,
                   broadcasts, stopped, sCrashed,
                   errorReported>>
    /\ UNCHANGED <<statistics, invoked>>
    /\ SOnly

\* Stop: _closeServerSocket, gSocket->close().  The close handler of every
\* open socket runs here: it takes _clientsMutex and erases the session it
\* finds, updates the statistics and invokes the disconnected callback.
CloseServerSocket ==
    /\ At("app", "stop_close")
    /\ IF ~gSocket
       THEN /\ sCrashed' = TRUE
            /\ UNCHANGED <<listening, sockets, clients, spc>>
       ELSE /\ sockets # {} => clientsMutex = NoThread
            /\ listening' = FALSE
            /\ sockets' = {}
            /\ clients' = [k \in DOMAIN clients \ sockets |-> clients[k]]
            /\ Goto("app", "stop_cleanup")
            /\ UNCHANGED sCrashed
    /\ UNCHANGED <<sRunning, maxClients, nextClientId, totalSent, gSocket, gLoop,
                   deferred, clientsMutex, callbacksMutex, onConnected,
                   onDisconnected, cur, bq, success, sentCount, assigned, before,
                   broadcasts, stopped,
                   errorReported>>
    /\ LET found == (DOMAIN clients) \cap sockets
       IN IF ~gSocket \/ found = {}
          THEN UNCHANGED <<statistics, invoked>>
          ELSE /\ callbacksMutex = NoThread
               /\ UpdateStatistics("mTotalDisconnections", Cardinality(found),
                                   Cardinality(DOMAIN clients \ sockets))
               /\ Invoke(onDisconnected, "mTotalDisconnections", found)
    /\ SOnly

\* Stop: _cleanupNetworking
CleanupNetworking ==
    /\ At("app", "stop_cleanup")
    /\ gSocket' = FALSE
    /\ gLoop' = FALSE
    /\ Goto("app", "stop_wait")
    /\ UNCHANGED <<sRunning, maxClients, nextClientId, clients, totalSent,
                   listening, sockets, deferred, clientsMutex, callbacksMutex,
                   onConnected, onDisconnected, cur, bq, success, sentCount,
                   assigned, before, broadcasts, stopped, sCrashed,
                   errorReported>>
    /\ UNCHANGED <<statistics, invoked>>
    /\ SOnly

\* Stop: Thread::Wait and Thread::Release of the accept thread, and the return
StopWait ==
    /\ At("app", "stop_wait")
    /\ spc["loop"] = "ended"
    /\ spc' = [spc EXCEPT !["app"] = "idle", !["loop"] = "none"]
    /\ stopped' = TRUE
    /\ UNCHANGED <<sRunning, maxClients, nextClientId, clients, totalSent, gSocket,
                   gLoop, listening, sockets, deferred, clientsMutex,
                   callbacksMutex, onConnected, onDisconnected, cur, bq, success,
                   sentCount, assigned, before, broadcasts, sCrashed,
                   errorReported>>
    /\ UNCHANGED <<statistics, invoked>>
    /\ SOnly

\* --------------------------------------------------- DisconnectClient
\* DisconnectClient(clientId) up to the return of _removeClient.  ws->close()
\* on an open socket runs the close handler on this thread, with _clientsMutex
\* held: the handler's own LockMutex(_clientsMutex) is granted only by a
\* re-entrant mutex, and then the handler erases the session and goes on to
\* its disconnected callback.
DisconnectClient(id) ==
    /\ At("app", "idle")
    /\ clientsMutex = NoThread
    /\ IF id \notin DOMAIN clients
       THEN UNCHANGED <<clients, sockets, clientsMutex, callbacksMutex, spc, cur>>
       ELSE /\ clientsMutex' = "app"
            /\ cur' = [cur EXCEPT !["app"] = id]
            /\ IF id \notin sockets
               THEN /\ Goto("app", "dc_erase")
                    /\ UNCHANGED <<clients, sockets, callbacksMutex>>
               ELSE /\ sockets' = sockets \ {id}
                    /\ IF ~recursiveMutex
                       THEN /\ Goto("app", "dc_blocked")
                            /\ UNCHANGED <<clients, callbacksMutex>>
                       ELSE /\ clients' = Erase(clients, id)
                            /\ Goto("app", "dc_handler_notify")
                            /\ UNCHANGED callbacksMutex
    /\ UNCHANGED <<sRunning, maxClients, nextClientId, totalSent, gSocket, gLoop,
                   listening, deferred, onConnected, onDisconnected, bq, success,
                   sentCount, assigned, before, broadcasts, stopped, sCrashed,
                   errorReported>>
    /\ UNCHANGED <<statistics, invoked>>
    /\ SOnly

\* the close handler inside DisconnectClient: its disconnected callback,
\* invoked under _callbacksMutex
CloseHandlerNotifyInDisconnect ==
    /\ At("app", "dc_handler_notify")
    /\ callbacksMutex = NoThread
    /\ IF onDisconnected
       THEN /\ callbacksMutex' = "app"
            /\ Goto("app", "dc_handler_cb")
       ELSE /\ Goto("app", "dc_erase")
            /\ UNCHANGED callbacksMutex
    /\ UNCHANGED <<sRunning, maxClients, nextClientId, clients, totalSent, gSocket,
                   gLoop, listening, sockets, deferred, clientsMutex, onConnected,
                   onDisconnected, cur, bq, success, sentCount, assigned, before,
                   broadcasts, stopped, sCrashed,
                   errorReported>>
    /\ UpdateStatistics("mTotalDisconnections", 1, Cardinality(DOMAIN clients))
    /\ Invoke(onDisconnected, "mTotalDisconnections", {cur["app"]})
    /\ SOnly

\* the disconnected callback called by that close handler returns
CloseHandlerCallbackInDisconnect ==
    /\ At("app", "dc_handler_cb")
    /\ callbacksMutex' = NoThread
    /\ Goto("app", "dc_erase")
    /\ UNCHANGED <<sRunning, maxClients, nextClientId, clients, totalSent, gSocket,
                   gLoop, listening, sockets, deferred, clientsMutex, onConnected,
                   onDisconnected, cur, bq, success, sentCount, assigned, before,
                   broadcasts, stopped, sCrashed,
                   errorReported>>
    /\ UNCHANGED <<statistics, invoked>>
    /\ SOnly

\* DisconnectClient: _clients.erase(clientIt) and the unlock.  After the close
\* handler erased the session, clientIt is an invalidated iterator.
DisconnectClientErase ==
    /\ At("app", "dc_erase")
    /\ IF cur["app"] \in DOMAIN clients
       THEN /\ clients' = Erase(clients, cur["app"])
            /\ UNCHANGED sCrashed
       ELSE /\ UNCHANGED clients
            /\ \E fault \in BOOLEAN : sCrashed' = fault
    /\ clientsMutex' = NoThread
    /\ Goto("app", "dc_notify")
    /\ UNCHANGED <<sRunning, maxClients, nextClientId, totalSent, gSocket, gLoop,
                   listening, sockets, deferred, callbacksMutex, onConnected,
                   onDisconnected, cur, bq, success, sentCount, assigned, before,
                   broadcasts, stopped,
                   errorReported>>
    /\ UNCHANGED <<statistics, invoked>>
    /\ SOnly

\* DisconnectClient: its own disconnected callback, invoked under _callbacksMutex
DisconnectClientNotify ==
    /\ At("app", "dc_notify")
    /\ callbacksMutex = NoThread
    /\ IF onDisconnected
       THEN /\ callbacksMutex' = "app"
            /\ Goto("app", "dc_cb")
            /\ UNCHANGED cur
       ELSE /\ Goto("app", "idle")
            /\ cur' = [cur EXCEPT !["app"] = 0]
            /\ UNCHANGED callbacksMutex
    /\ UNCHANGED <<sRunning, maxClients, nextClientId, clients, totalSent, gSocket,
                   gLoop, listening, sockets, deferred, clientsMutex, onConnected,
                   onDisconnected, bq, success, sentCount, assigned, before,
                   broadcasts, stopped, sCrashed,
                   errorReported>>
    /\ UpdateStatistics("mTotalDisconnections", 1, Cardinality(DOMAIN clients))
    /\ Invoke(onDisconnected, "mTotalDisconnections", {cur["app"]})
    /\ SOnly

\* the disconnected callback called by DisconnectClient returns, and the call
DisconnectClientReturn ==
    /\ At("app", "dc_cb")
    /\ callbacksMutex' = NoThread
    /\ cur' = [cur EXCEPT !["app"] = 0]
    /\ Goto("app", "idle")
    /\ UNCHANGED <<sRunning, maxClients, nextClientId, clients, totalSent, gSocket,
                   gLoop, listening, sockets, deferred, clientsMutex, onConnected,
                   onDisconnected, bq, success, sentCount, assigned, before,
                   broadcasts, stopped, sCrashed,
                   errorReported>>
    /\ UNCHANGED <<statistics, invoked>>
    /\ SOnly

\* SetOnClientConnected(callback)
SetOnClientConnected ==
    /\ At("app", "idle")
    /\ callbacksMutex = NoThread
    /\ onConnected' = TRUE
    /\ UNCHANGED <<sRunning, maxClients, nextClientId, clients, totalSent, gSocket,
                   gLoop, listening, sockets, deferred, clientsMutex,
                   callbacksMutex, onDisconnected, spc, cur, bq, success,
                   sentCount, assigned, before, broadcasts, stopped, sCrashed,
                   errorReported>>
    /\ UNCHANGED <<statistics, invoked>>
    /\ SOnly

\* SetOnClientDisconnected(callback)
SetOnClientDisconnected ==
    /\ At("app", "idle")
    /\ callbacksMutex = NoThread
    /\ onDisconnected' = TRUE
    /\ UNCHANGED <<sRunning, maxClients, nextClientId, clients, totalSent, gSocket,
                   gLoop, listening, sockets, deferred, clientsMutex,
                   callbacksMutex, onConnected, spc, cur, bq, success, sentCount,
                   assigned, before, broadcasts, stopped, sCrashed,
                   errorReported>>
    /\ UNCHANGED <<statistics, invoked>>
    /\ SOnly

\* ---------------------------------------------------- BroadcastMessage
\* BroadcastMessage(jsonMessage), called with a message that is not empty
\* while the server is running: the lock
BroadcastMessage ==
    /\ At("bcast", "idle")
    /\ sRunning
    /\ broadcasts < MaxBroadcasts
    /\ clientsMutex = NoThread
    /\ clientsMutex' = "bcast"
    /\ broadcasts' = broadcasts + 1
    /\ bq' = InOrder(DOMAIN clients)
    /\ sentCount' = 0
    /\ Goto("bcast", IF clients = <<>> THEN "b_unlock" ELSE "b_send")
    /\ UNCHANGED <<sRunning, maxClients, nextClientId, clients, totalSent, gSocket,
                   gLoop, listening, sockets, deferred, callbacksMutex,
                   onConnected, onDisconnected, cur, success, assigned, before,
                   stopped, sCrashed,
                   errorReported>>
    /\ UNCHANGED <<statistics, invoked>>
    /\ SOnly

\* _sendToSocket: bool success = false; if (gLoop) gLoop->defer(...)
SendToSocket ==
    /\ At("bcast", "b_send")
    /\ success' = "false"
    /\ deferred' = IF gLoop THEN Append(deferred, [op |-> "send", id |-> Head(bq)])
                            ELSE deferred
    /\ Goto("bcast", "b_sent")
    /\ UNCHANGED <<sRunning, maxClients, nextClientId, clients, totalSent, gSocket,
                   gLoop, listening, sockets, clientsMutex, callbacksMutex,
                   onConnected, onDisconnected, cur, bq, sentCount, assigned,
                   before, broadcasts, stopped, sCrashed,
                   errorReported>>
    /\ UNCHANGED <<statistics, invoked>>
    /\ SOnly

\* _sendToSocket: return success, and what BroadcastMessage does with it
SendToSocketReturn ==
    /\ At("bcast", "b_sent")
    /\ IF success = "true"
       THEN /\ sentCount' = sentCount + 1
            /\ clients' = [clients EXCEPT ![Head(bq)] = @ + 1]
            /\ totalSent' = totalSent + 1
       ELSE UNCHANGED <<sentCount, clients, totalSent>>
    /\ success' = "none"
    /\ bq' = Tail(bq)
    /\ Goto("bcast", IF Tail(bq) = <<>> THEN "b_unlock" ELSE "b_send")
    /\ UNCHANGED <<sRunning, maxClients, nextClientId, gSocket, gLoop, listening,
                   sockets, deferred, clientsMutex, callbacksMutex, onConnected,
                   onDisconnected, cur, assigned, before, broadcasts, stopped,
                   sCrashed,
                   errorReported>>
    /\ UNCHANGED <<statistics, invoked>>
    /\ SOnly

\* BroadcastMessage: the unlock and return sentCount
BroadcastReturn ==
    /\ At("bcast", "b_unlock")
    /\ clientsMutex' = NoThread
    /\ sentCount' = 0
    /\ Goto("bcast", "idle")
    /\ UNCHANGED <<sRunning, maxClients, nextClientId, clients, totalSent, gSocket,
                   gLoop, listening, sockets, deferred, callbacksMutex,
                   onConnected, onDisconnected, cur, bq, success, assigned, before,
                   broadcasts, stopped, sCrashed,
                   errorReported>>
    /\ UNCHANGED <<statistics, invoked>>
    /\ SOnly

\* ------------------------------------------------------- accept thread
\* _acceptThreadFunction: gSocket->listen(_port, ...), which binds or fails
AcceptThreadListen ==
    /\ At("loop", "listen")
    /\ IF ~gSocket
       THEN /\ Goto("loop", "ended")
            /\ UNCHANGED <<listening, errorReported>>
       ELSE /\ \E bound \in BOOLEAN :
                 /\ listening' = bound
                 /\ ~bound => callbacksMutex = NoThread
                 /\ errorReported' = (errorReported \/ ~bound)
            /\ Goto("loop", "set_running")
    /\ UNCHANGED <<sRunning, maxClients, nextClientId, clients, totalSent, gSocket,
                   gLoop, sockets, deferred, clientsMutex, callbacksMutex,
                   onConnected, onDisconnected, cur, bq, success, sentCount,
                   assigned, before, broadcasts, stopped, sCrashed>>
    /\ UNCHANGED <<statistics, invoked>>
    /\ SOnly

\* _acceptThreadFunction: _running = true
AcceptThreadSetRunning ==
    /\ At("loop", "set_running")
    /\ sRunning' = TRUE
    /\ Goto("loop", "run")
    /\ UNCHANGED <<maxClients, nextClientId, clients, totalSent, gSocket, gLoop,
                   listening, sockets, deferred, clientsMutex, callbacksMutex,
                   onConnected, onDisconnected, cur, bq, success, sentCount,
                   assigned, before, broadcasts, stopped, sCrashed,
                   errorReported>>
    /\ UNCHANGED <<statistics, invoked>>
    /\ SOnly

\* _acceptThreadFunction: gLoop->run() is entered
AcceptThreadRun ==
    /\ At("loop", "run")
    /\ IF ~gLoop
       THEN /\ sCrashed' = TRUE
            /\ UNCHANGED spc
       ELSE /\ Goto("loop", "running")
            /\ UNCHANGED sCrashed
    /\ UNCHANGED <<sRunning, maxClients, nextClientId, clients, totalSent, gSocket,
                   gLoop, listening, sockets, deferred, clientsMutex,
                   callbacksMutex, onConnected, onDisconnected, cur, bq, success,
                   sentCount, assigned, before, broadcasts, stopped,
                   errorReported>>
    /\ UNCHANGED <<statistics, invoked>>
    /\ SOnly

\* gLoop->run() returns when nothing is left to poll; _running = false
LoopExit ==
    /\ At("loop", "running")
    /\ ~listening
    /\ sockets = {}
    /\ sRunning' = FALSE
    /\ Goto("loop", "ended")
    /\ UNCHANGED <<maxClients, nextClientId, clients, totalSent, gSocket, gLoop,
                   listening, sockets, deferred, clientsMutex, callbacksMutex,
                   onConnected, onDisconnected, cur, bq, success, sentCount,
                   assigned, before, broadcasts, stopped, sCrashed,
                   errorReported>>
    /\ UNCHANGED <<statistics, invoked>>
    /\ SOnly

\* gLoop->run() throws a std::exception, which is caught and logged;
\* _running = false
LoopException ==
    /\ At("loop", "running")
    /\ sRunning' = FALSE
    /\ Goto("loop", "ended")
    /\ UNCHANGED <<maxClients, nextClientId, clients, totalSent, gSocket, gLoop,
                   listening, sockets, deferred, clientsMutex, callbacksMutex,
                   onConnected, onDisconnected, cur, bq, success, sentCount,
                   assigned, before, broadcasts, stopped, sCrashed,
                   errorReported>>
    /\ UNCHANGED <<statistics, invoked>>
    /\ SOnly

\* the open handler up to its call of _addClient: _generateClientId and the
\* store of the id into the socket's user data
OpenHandler ==
    /\ At("loop", "running")
    /\ listening
    /\ nextClientId <= MaxIds
    /\ nextClientId' = NextClientId(nextClientId)
    /\ sockets' = sockets \cup {nextClientId}
    /\ assigned' = Append(assigned, nextClientId)
    /\ cur' = [cur EXCEPT !["loop"] = nextClientId]
    /\ Goto("loop", "add_client")
    /\ UNCHANGED <<sRunning, maxClients, clients, totalSent, gSocket, gLoop,
                   listening, deferred, clientsMutex, callbacksMutex, onConnected,
                   onDisconnected, bq, success, sentCount, before, broadcasts,
                   stopped, sCrashed,
                   errorReported>>
    /\ UNCHANGED <<statistics, invoked>>
    /\ SOnly

\* _addClient under _clientsMutex: a full table closes the socket (its close
\* handler finds no session), otherwise the session is stored
AddClient ==
    /\ At("loop", "add_client")
    /\ clientsMutex = NoThread
    /\ LET clientId == cur["loop"]
       IN IF Cardinality(DOMAIN clients) >= maxClients
          THEN /\ sockets' = sockets \ {clientId}
               /\ cur' = [cur EXCEPT !["loop"] = 0]
               /\ Goto("loop", "running")
               /\ UNCHANGED clients
          ELSE /\ clients' = [k \in DOMAIN clients \cup {clientId} |->
                                IF k = clientId THEN 0 ELSE clients[k]]
               /\ Goto("loop", "connected_notify")
               /\ UNCHANGED <<sockets, cur>>
    /\ UNCHANGED <<sRunning, maxClients, nextClientId, totalSent, gSocket, gLoop,
                   listening, deferred, clientsMutex, callbacksMutex, onConnected,
                   onDisconnected, bq, success, sentCount, assigned, before,
                   broadcasts, stopped, sCrashed,
                   errorReported>>
    /\ UNCHANGED <<statistics, invoked>>
    /\ SOnly

\* a handler on the accept thread invokes a callback under _callbacksMutex, if
\* the callback is set
Notify(isSet, at, callback, counter) ==
    /\ At("loop", at)
    /\ callbacksMutex = NoThread
    /\ IF isSet
       THEN /\ callbacksMutex' = "loop"
            /\ Goto("loop", callback)
            /\ UNCHANGED cur
       ELSE /\ Goto("loop", "running")
            /\ cur' = [cur EXCEPT !["loop"] = 0]
            /\ UNCHANGED callbacksMutex
    /\ UNCHANGED <<sRunning, maxClients, nextClientId, clients, totalSent, gSocket,
                   gLoop, listening, sockets, deferred, clientsMutex, onConnected,
                   onDisconnected, bq, success, sentCount, assigned, before,
                   broadcasts, stopped, sCrashed,
                   errorReported>>
    /\ UpdateStatistics(counter, 1, Cardinality(DOMAIN clients))
    /\ Invoke(isSet, counter, {cur["loop"]})
    /\ SOnly

\* the callback returns and with it the handler
CallbackReturn(callback) ==
    /\ At("loop", callback)
    /\ callbacksMutex' = NoThread
    /\ cur' = [cur EXCEPT !["loop"] = 0]
    /\ Goto("loop", "running")
    /\ UNCHANGED <<sRunning, maxClients, nextClientId, clients, totalSent, gSocket,
                   gLoop, listening, sockets, deferred, clientsMutex, onConnected,
                   onDisconnected, bq, success, sentCount, assigned, before,
                   broadcasts, stopped, sCrashed,
                   errorReported>>
    /\ UNCHANGED <<statistics, invoked>>
    /\ SOnly

\* _addClient: the connected callback
ConnectedNotify == Notify(onConnected, "connected_notify", "connected_cb", "mTotalConnections")

ConnectedCallbackReturn == CallbackReturn("connected_cb")

\* the close handler of socket id on the accept thread, up to its unlock
CloseSocket(id) ==
    /\ clientsMutex = NoThread
    /\ sockets' = sockets \ {id}
    /\ IF id \in DOMAIN clients
       THEN /\ clients' = Erase(clients, id)
            /\ cur' = [cur EXCEPT !["loop"] = id]
            /\ Goto("loop", "closed_notify")
       ELSE UNCHANGED <<clients, cur, spc>>

\* the peer closes its connection
CloseHandler(id) ==
    /\ At("loop", "running")
    /\ id \in sockets
    /\ CloseSocket(id)
    /\ UNCHANGED <<sRunning, maxClients, nextClientId, totalSent, gSocket, gLoop,
                   listening, deferred, clientsMutex, callbacksMutex, onConnected,
                   onDisconnected, bq, success, sentCount, assigned, before,
                   broadcasts, stopped, sCrashed,
                   errorReported>>
    /\ UNCHANGED <<statistics, invoked>>
    /\ SOnly

\* the close handler: the disconnected callback
DisconnectedNotify == Notify(onDisconnected, "closed_notify", "closed_cb",
                             "mTotalDisconnections")

DisconnectedCallbackReturn == CallbackReturn("closed_cb")

\* the event loop runs the oldest deferred callback.  A deferred close closes
\* a socket that is still open.  A deferred send stores its result through the
\* reference to _sendToSocket's local success: the local is alive only while
\* that call has not returned, and the callback is then the newest one.
RunDeferred ==
    /\ At("loop", "running")
    /\ deferred # <<>>
    /\ deferred' = Tail(deferred)
    /\ LET d == Head(deferred)
       IN IF d.op = "close"
          THEN /\ IF d.id \in sockets
                  THEN CloseSocket(d.id)
                  ELSE UNCHANGED <<sockets, clients, cur, spc>>
               /\ UNCHANGED <<success, sCrashed>>
          ELSE /\ IF spc["bcast"] = "b_sent" /\ Len(deferred) = 1
                  THEN /\ success' = IF d.id \in sockets THEN "true" ELSE success
                       /\ UNCHANGED sCrashed
                  ELSE /\ \E fault \in BOOLEAN : sCrashed' = fault
                       /\ UNCHANGED success
               /\ UNCHANGED <<sockets, clients, cur, spc>>
    /\ UNCHANGED <<sRunning, maxClients, nextClientId, totalSent, gSocket, gLoop,
                   listening, clientsMutex, callbacksMutex, onConnected,
                   onDisconnected, bq, sentCount, assigned, before, broadcasts,
                   stopped,
                   errorReported>>
    /\ UNCHANGED <<statistics, invoked>>
    /\ SOnly

\* the application thread with every lifecycle and client call, and the
\* accept thread
SNext ==
    \/ \E m \in MaxClientsArgs : Start(m)
    \/ StopNotRunning
    \/ Stop
    \/ DisconnectAllClients
    \/ CloseServerSocket
    \/ CleanupNetworking
    \/ StopWait
    \/ \E id \in 1..MaxIds : DisconnectClient(id)
    \/ CloseHandlerNotifyInDisconnect
    \/ CloseHandlerCallbackInDisconnect
    \/ DisconnectClientErase
    \/ DisconnectClientNotify
    \/ DisconnectClientReturn
    \/ SetOnClientConnected
    \/ SetOnClientDisconnected
    \/ AcceptThreadListen
    \/ AcceptThreadSetRunning
    \/ AcceptThreadRun
    \/ LoopExit
    \/ LoopException
    \/ OpenHandler
    \/ AddClient
    \/ ConnectedNotify
    \/ ConnectedCallbackReturn
    \/ \E id \in 1..MaxIds : CloseHandler(id)
    \/ DisconnectedNotify
    \/ DisconnectedCallbackReturn
    \/ RunDeferred

\* the application thread with Start and Stop only, a second thread that
\* broadcasts, and the accept thread; no callback is registered
BNext ==
    \/ \E m \in MaxClientsArgs : Start(m)
    \/ StopNotRunning
    \/ Stop
    \/ DisconnectAllClients
    \/ CloseServerSocket
    \/ CleanupNetworking
    \/ StopWait
    \/ BroadcastMessage
    \/ SendToSocket
    \/ SendToSocketReturn
    \/ BroadcastReturn
    \/ AcceptThreadListen
    \/ AcceptThreadSetRunning
    \/ AcceptThreadRun
    \/ LoopExit
    \/ LoopException
    \/ OpenHandler
    \/ AddClient
    \/ ConnectedNotify
    \/ \E id \in 1..MaxIds : CloseHandler(id)
    \/ DisconnectedNotify
    \/ RunDeferred

\* ----------------------------------------------------------------------
\* Properties of ProfilerServer

\* the positions at which a thread is inside a client event callback
CallbackPositions == {"connected_cb", "closed_cb", "dc_handler_cb", "dc_cb"}

\* C5: a running server's client table never holds more than maxClients
\* sessions
C5_TableWithinMaxClients ==
    sRunning => Cardinality(DOMAIN clients) <= maxClients

\* C6: the client ids handed to connections are strictly increasing in the
\* order of the connection events, across disconnects, rejected connections
\* and Stop/Start cycles, every one of them is below the next id to hand out,
\* and every session of the client table is stored under the id handed to its
\* connection
C6_IdsStrictlyIncreasing ==
    /\ \A i, j \in 1..Len(assigned) : i < j => assigned[i] < assigned[j]
    /\ \A i \in 1..Len(assigned) : assigned[i] < nextClientId
    /\ DOMAIN clients \subseteq Range(assigned)

\* C6 witness: ids were handed out on both sides of a restart, one of them to
\* a connection that was rejected or has gone, and a session is in the table
C6_Witness ==
    /\ Len(assigned) = MaxIds
    /\ assigned[1] \in before
    /\ assigned[MaxIds] \notin before
    /\ clients # <<>>
    /\ Range(assigned) \ DOMAIN clients # {}

\* C7: when BroadcastMessage has gone through the table, sentCount and the
\* server's total are the number of sessions whose socket is open, and each of
\* those sessions has counted the message
C7_BroadcastCountsEveryClient ==
    spc["bcast"] = "b_unlock" =>
        /\ sentCount = Cardinality(DOMAIN clients \cap sockets)
        /\ \A k \in DOMAIN clients \cap sockets : clients[k] >= 1

\* C8: no thread is inside a connected or disconnected callback while it
\* holds the client-table lock
C8_NoCallbackUnderClientsLock ==
    \A t \in SThreads : spc[t] \in CallbackPositions => clientsMutex # t

\* C10: once Stop has returned, and until the next Start, the server is not
\* running and the client table is empty
C10_StopLeavesServerEmpty ==
    stopped => (~sRunning /\ clients = <<>>)

\* C24: DisconnectClient(id) changes nothing when id is not in the client
\* table; when it is, the call never waits for the client-table lock it holds,
\* the session is still in the table when the call erases it (it is removed
\* once) and the disconnected callback is not invoked by a close handler
\* inside the call as well as by the call (it is invoked once)
C24_DisconnectClientOnce ==
    /\ [](spc["app"] # "dc_blocked")
    /\ [](spc["app"] = "dc_erase" => cur["app"] \in DOMAIN clients)
    /\ [](spc["app"] # "dc_handler_cb")
    /\ [][\A id \in 1..MaxIds :
             (id \notin DOMAIN clients /\ DisconnectClient(id)) =>
                 UNCHANGED svars]_vars

\* the positions of a thread whose next step begins with the statistics update
\* _statistics.mActiveConnections = _clients.size(): after _addClient's insert,
\* after the close handler's erase, after DisconnectClient's erase
SizeReadPositions ==
    {"connected_notify", "closed_notify", "dc_handler_notify", "dc_notify"}

\* C25: a thread that reads the size of the client table holds the
\* client-table lock
C25_TableReadUnderClientsLock ==
    \A t \in SThreads : spc[t] \in SizeReadPositions => clientsMutex = t

\* an accept thread has been created and has not ended
AcceptThreadAlive == spc["loop"] \notin {"none", "ended"}

\* C26: once a Stop has returned, and until the next Start, the accept thread
\* has ended and the server is not running
C26_StopEndsAcceptThread ==
    stopped => (~AcceptThreadAlive /\ ~sRunning)

\* C27: under fair scheduling a Stop that has begun its shutdown returns
C27_StopTerminates ==
    spc["app"] = "stop_disconnect" ~> spc["app"] = "idle"

\* C35: when the application thread is between two calls and the accept thread
\* is inside no open or close handler, mActiveConnections is the number of
\* sessions in the client table and so is mTotalConnections minus
\* mTotalDisconnections; after Stop has returned both describe zero clients
C35_StatisticsMatchTable ==
    (/\ ~sCrashed /\ spc["app"] = "idle"
     /\ spc["loop"] \in {"none", "listen", "set_running", "run", "running", "ended"}) =>
        /\ statistics.mActiveConnections = Cardinality(DOMAIN clients)
        /\ statistics.mTotalConnections - statistics.mTotalDisconnections
              = Cardinality(DOMAIN clients)

\* C36: the disconnected callback is invoked at most once for a client id;
\* when a session for which the connected callback was invoked leaves the
\* client table while a disconnected callback is set, through a close event,
\* through DisconnectClient or through Stop, the thread that removes it invokes
\* the disconnected callback for it or goes on to do so; a connection rejected
\* for maxClients invokes no callback
C36_DisconnectedCallbackOnce ==
    /\ [](\A id \in 1..MaxIds : invoked.disconnected[id] <= 1)
    /\ [][\A id \in 1..MaxIds :
            (/\ id \in invoked.connected /\ onDisconnected
             /\ id \in DOMAIN clients /\ id \notin DOMAIN clients') =>
                \/ invoked'.disconnected[id] = invoked.disconnected[id] + 1
                \/ \E t \in SThreads :
                      /\ spc'[t] \in {"closed_notify", "dc_handler_notify", "dc_notify"}
                      /\ cur'[t] = id]_vars
    /\ [][(spc["loop"] = "add_client" /\ spc'["loop"] # "add_client"
           /\ cur["loop"] \notin DOMAIN clients') =>
              (spc'["loop"] = "running" /\ invoked' = invoked)]_vars

\* C11: a Stop called after a Stop has returned, with no Start between the
\* two, changes nothing: it does not enter the shutdown sequence
C11_SecondStopChangesNothing ==
    [][(stopped /\ spc["app"] = "idle") => spc'["app"] # "stop_disconnect"]_vars

\* C12: once Start has created the accept thread and returned, and as long as
\* that thread lives, a call by the application leaves maxClients as it is
\* (Start is the only call that stores it)
C12_StartWhileRunningChangesNothing ==
    [][(AcceptThreadAlive /\ spc["app"] = "idle") => maxClients' = maxClients]_vars

\* C13: an accept thread whose listen call failed to bind does not make the
\* server running
C13_BindFailureNeverRunning ==
    [][(spc["loop"] = "set_running" /\ ~listening) => ~sRunning']_vars

\* C14: when the accept thread has ended while its endpoint was still
\* listening, which only an exception out of the event loop brings about, the
\* error callback has been called
C14_ExceptionIsReported ==
    (spc["loop"] = "ended" /\ listening) => errorReported

\* ======================================================================
\* ProfilerServer::_serializeProfilerData
\* ======================================================================
\* The encoder visits the variant and builds a Json::Value by assignments to
\* root[key]; an assignment to a key that is present replaces its value.  The
\* values of the kind-specific members are not followed, except the
\* parameters of an event, whose names the caller chooses.

\* the alternatives of ProfilerDataVariant
Kinds == {"ProfilerEngineData", "ProfilerEntityData", "ProfilerChannelData",
          "ProfilerListenerData", "ProfilerPerformanceData", "ProfilerEvent"}

\* the category the constructor of each alternative stores
KindCategory(kind) ==
    CASE kind = "ProfilerEngineData" -> eProfilerCategory_Engine
      [] kind = "ProfilerEntityData" -> eProfilerCategory_Entity
      [] kind = "ProfilerChannelData" -> eProfilerCategory_Channel
      [] kind = "ProfilerListenerData" -> eProfilerCategory_Listener
      [] kind = "ProfilerPerformanceData" -> eProfilerCategory_Performance
      [] kind = "ProfilerEvent" -> eProfilerCategory_Events

\* eProfilerPriority
Priorities == {0, 1, 2, 3}

\* the message ids of the snapshots handed to the encoder
DataIds == {1, 2}

\* the parameter maps of the events handed to the encoder, as sequences of
\* <<name, value>>
ParameterLists == {<<>>, <<<<"type", "engine">>>>, <<<<"source", "game">>>>}

NoData == [kind |-> "none"]
NoRoot == <<>>

\* the type discriminator each branch of the visitor writes
TypeOf_engine(kind) == "engine"
TypeOf(kind) ==
    CASE kind = "ProfilerEngineData" -> "engine"
      [] kind = "ProfilerEntityData" -> "entity"
      [] kind = "ProfilerChannelData" -> "channel"
      [] kind = "ProfilerListenerData" -> "listener"
      [] kind = "ProfilerPerformanceData" -> "performance"
      [] kind = "ProfilerEvent" -> "event"

\* the names of the kind-specific members each branch assigns after "type"
KindMembers(kind) ==
    CASE kind = "ProfilerEngineData" ->
           <<"isInitialized", "engineUptime", "configFile", "totalEntityCount",
             "activeEntityCount", "totalChannelCount", "activeChannelCount",
             "totalListenerCount", "activeListenerCount", "cpuUsagePercent",
             "memoryUsageBytes", "activeVoiceCount", "maxVoiceCount", "sampleRate",
             "masterGain">>
      [] kind = "ProfilerEntityData" ->
           <<"entityId", "position", "velocity", "activeChannelCount",
             "distanceToListener", "obstruction", "occlusion">>
      [] kind = "ProfilerChannelData" ->
           <<"channelId", "playbackState", "sourceEntityId", "soundName", "gain",
             "distanceToListener">>
      [] kind = "ProfilerListenerData" ->
           <<"listenerId", "position", "gain", "currentEnvironment">>
      [] kind = "ProfilerPerformanceData" ->
           <<"totalCpuUsage", "mixerCpuUsage", "dspCpuUsage",
             "totalAllocatedMemory", "engineMemory", "processedSamples",
             "latencyMs">>
      [] kind = "ProfilerEvent" -> <<"eventName", "description", "parameters">>

\* object[key] = value on a Json::Value object
Assign(object, key, value) ==
    [k \in DOMAIN object \cup {key} |-> IF k = key THEN value ELSE object[k]]

\* a Json::Value object after the assignments of a list of <<key, value>>
RECURSIVE AssignAll(_, _)
AssignAll(object, members) ==
    IF members = <<>> THEN object
    ELSE AssignAll(Assign(object, Head(members)[1], Head(members)[2]),
                   Tail(members))

\* the value the visitor assigns to a kind-specific member of d
MemberValue(d, key) ==
    IF key = "parameters" THEN AssignAll(<<>>, d.params) ELSE "value"

\* the assignments of the visitor for d, in the order of the code
Members(d) ==
    <<<<"timestamp", "value">>, <<"messageId", d.id>>,
      <<"category", d.category>>, <<"priority", d.priority>>,
      <<"type", TypeOf(d.kind)>>>>
    \o [i \in 1..Len(KindMembers(d.kind)) |->
          <<KindMembers(d.kind)[i], MemberValue(d, KindMembers(d.kind)[i])>>]

EInit ==
    /\ data = NoData
    /\ root = NoRoot

\* a snapshot is handed to BroadcastProfilerData
TakeData(kind, id, priority, params) ==
    /\ kind = "ProfilerEvent" \/ params = <<>>
    /\ data' = [kind |-> kind, id |-> id, category |-> KindCategory(kind),
                priority |-> priority, params |-> params]
    /\ root' = NoRoot
    /\ EOnly

\* _serializeProfilerData(data) up to Json::writeString
SerializeProfilerData ==
    /\ data # NoData
    /\ root = NoRoot
    /\ root' = AssignAll(<<>>, Members(data))
    /\ UNCHANGED data
    /\ EOnly

ENext ==
    \/ \E kind \in Kinds, id \in DataIds, priority \in Priorities,
          params \in ParameterLists : TakeData(kind, id, priority, params)
    \/ SerializeProfilerData

\* ----------------------------------------------------------------------
\* the type discriminators of the wire format
Discriminators ==
    {"engine", "entity", "channel", "listener", "performance", "event"}

\* the kind a reader of the wire format takes a discriminator for
KindOfType(type) ==
    CASE type = "engine" -> "ProfilerEngineData"
      [] type = "entity" -> "ProfilerEntityData"
      [] type = "channel" -> "ProfilerChannelData"
      [] type = "listener" -> "ProfilerListenerData"
      [] type = "performance" -> "ProfilerPerformanceData"
      [] type = "event" -> "ProfilerEvent"
      [] OTHER -> "unknown"

\* C20: the encoded object of every snapshot has a "type" member, which is
\* one of the six discriminators, and the reader's kind for it is the kind of
\* the encoded snapshot; the common members are the snapshot's
C20_DiscriminatorRoundTrip ==
    root # NoRoot =>
        /\ "type" \in DOMAIN root
        /\ root["type"] \in Discriminators
        /\ KindOfType(root["type"]) = data.kind
        /\ root["messageId"] = data.id /\ root["priority"] = data.priority

\* C20 witness: an event with a parameter named "type" has been encoded
C20_Witness ==
    /\ root # NoRoot
    /\ data.kind = "ProfilerEvent"
    /\ data.params # <<>> /\ data.params[1][1] = "type"

\* ======================================================================
\* ProfilerManager::GetInstance / DestroyInstance
\* ======================================================================
\* Two threads call the two static functions.  An instance is known by the
\* number of its construction; an instance other than the one _sInstance
\* holds has been destroyed.

IThreads == {"t1", "t2"}

\* instances constructed in one run of the model
MaxInstances == 2

IInit ==
    /\ sInstance = 0
    /\ sInstanceMutex = NoThread
    /\ constructed = 0
    /\ ipc = [t \in IThreads |-> "idle"]
    /\ ret = [t \in IThreads |-> 0]

\* GetInstance: LockMutex; if (!_sInstance) _sInstance = new ProfilerManager
GetInstanceLock(t) ==
    /\ ipc[t] = "idle"
    /\ sInstanceMutex = NoThread
    /\ sInstance # 0 \/ constructed < MaxInstances
    /\ sInstanceMutex' = t
    /\ IF sInstance = 0
       THEN sInstance' = constructed + 1 /\ constructed' = constructed + 1
       ELSE UNCHANGED <<sInstance, constructed>>
    /\ ipc' = [ipc EXCEPT ![t] = "get_locked"]
    /\ UNCHANGED ret
    /\ IOnly

\* GetInstance: UnlockMutex
GetInstanceUnlock(t) ==
    /\ ipc[t] = "get_locked"
    /\ sInstanceMutex' = NoThread
    /\ ipc' = [ipc EXCEPT ![t] = "get_read"]
    /\ UNCHANGED <<sInstance, constructed, ret>>
    /\ IOnly

\* GetInstance: _sInstance.get(), evaluated after the unlock.  A read that
\* races with the reset of DestroyInstance gives the old pointer or nullptr,
\* which are the values of the read just before and just after the reset.
GetInstanceRead(t) ==
    /\ ipc[t] = "get_read"
    /\ ret' = [ret EXCEPT ![t] = sInstance]
    /\ ipc' = [ipc EXCEPT ![t] = "get_return"]
    /\ UNCHANGED <<sInstance, sInstanceMutex, constructed>>
    /\ IOnly

\* GetInstance: the caller receives the pointer
GetInstanceReturn(t) ==
    /\ ipc[t] = "get_return"
    /\ ipc' = [ipc EXCEPT ![t] = "idle"]
    /\ UNCHANGED <<sInstance, sInstanceMutex, constructed, ret>>
    /\ IOnly

\* DestroyInstance: LockMutex
DestroyInstanceLock(t) ==
    /\ ipc[t] = "idle"
    /\ sInstanceMutex = NoThread
    /\ sInstanceMutex' = t
    /\ ipc' = [ipc EXCEPT ![t] = "destroy_locked"]
    /\ UNCHANGED <<sInstance, constructed, ret>>
    /\ IOnly

\* DestroyInstance: if (_sInstance) { Deinitialize(); reset(); } UnlockMutex
DestroyInstanceUnlock(t) ==
    /\ ipc[t] = "destroy_locked"
    /\ sInstance' = 0
    /\ sInstanceMutex' = NoThread
    /\ ipc' = [ipc EXCEPT ![t] = "idle"]
    /\ UNCHANGED <<constructed, ret>>
    /\ IOnly

INext ==
    \E t \in IThreads :
        \/ GetInstanceLock(t)
        \/ GetInstanceUnlock(t)
        \/ GetInstanceRead(t)
        \/ GetInstanceReturn(t)
        \/ DestroyInstanceLock(t)
        \/ DestroyInstanceUnlock(t)

\* ----------------------------------------------------------------------
\* DestroyInstance next to the update thread of the instance.  The application
\* thread is "t1"; it gets the instance, initializes it, registers a local
\* callback, captures, and calls DestroyInstance, whose Deinitialize runs with
\* _sInstanceMutex held.  The registered callback uses amProfiler, that is
\* ProfilerManager::GetInstance().

\* the local callback, on the update thread: GetInstance() (LockMutex on
\* _sInstanceMutex, the test, UnlockMutex, the return) and the return of the
\* callback
CallbackGetInstance ==
    /\ ~crashed
    /\ mpc["loop"] = "in_cb"
    /\ LockGranted(sInstanceMutex)
    /\ mpc' = [mpc EXCEPT !["loop"] = "dist_unlock"]
    /\ UNCHANGED <<mInitialized, mEnabled, mRunning, updateThread, mConfig,
                   dataCollector, messageQueue, mq, mqDropped, messagesDropped,
                   totalMessagesSent, networkServer, localCallback, callbackMutex,
                   recursiveMutex, messageIdCounter, userEvent, plan, pending,
                   batch, eventCaptures, crashed>>
    /\ MOnly

\* the steps of DestroyInstance after its LockMutex: Deinitialize, then the
\* reset and the unlock
DestroyInstanceBody ==
    \/ ipc["t1"] = "destroy_locked" /\ DeinitializeBegin
    \/ ipc["t1"] = "destroy_locked" /\ DeinitializeJoin
    \/ ipc["t1"] = "destroy_locked" /\ DeinitializeRest
    \/ AppIdle /\ ~mInitialized /\ DestroyInstanceUnlock("t1")

\* the update thread with the callback above
DLoop ==
    \/ \E t \in MThreads : CaptureCall(t)
    \/ \E t \in MThreads : QueueMessage(t)
    \/ UpdateLoop
    \/ ProcessQueuedMessages
    \/ DistributeMessage
    \/ InvokeLocalCallback
    \/ CallbackGetInstance
    \/ DistributeMessageEnd

DNext ==
    \/ AppIdle /\ constructed = 0 /\ GetInstanceLock("t1")
    \/ GetInstanceUnlock("t1")
    \/ GetInstanceRead("t1")
    \/ GetInstanceReturn("t1")
    \/ ipc["t1"] = "idle" /\ sInstance # 0 /\ \E c \in Configs : Initialize(c)
    \/ ipc["t1"] = "idle" /\ sInstance # 0 /\ RegisterMessageCallback
    \/ ipc["t1"] = "idle" /\ sInstance # 0 /\ \E op \in AppCaptureOps : Capture(op)
    \/ AppIdle /\ sInstance # 0 /\ DestroyInstanceLock("t1")
    \/ DestroyInstanceBody
    \/ DLoop

\* C37: under fair scheduling a DestroyInstance call that has taken
\* _sInstanceMutex returns, also when the local callback calls GetInstance on
\* the update thread while DestroyInstance waits for that thread
C37_DestroyInstanceReturns ==
    ipc["t1"] = "destroy_locked" ~> ipc["t1"] = "idle"

\* C22: at most one instance is alive, a second one is constructed only after
\* the first was destroyed, and the pointer a GetInstance call returns is the
\* instance that is alive at the return
C22_GetInstanceReturnsLiveInstance ==
    /\ [](sInstance \in {0, constructed})
    /\ [][\A t \in IThreads :
             (ipc[t] = "get_return" /\ ipc'[t] = "idle") =>
                 (ret[t] # 0 /\ ret[t] = sInstance)]_vars

\* the manager is constructed at tick 0; the default interval is two ticks
TInit ==
    /\ now = 0
    /\ lastUpdate = 0
    /\ updateInterval = IntervalOf(30)

Init == QInit /\ MInit /\ SInit /\ EInit /\ IInit /\ TInit

\* the manager: repeated captures of one event
SpecV == Init /\ [][VNext]_vars

\* DestroyInstance next to the update thread, under fair scheduling: a thread
\* inside DestroyInstance takes its next step, and so does the update thread
SpecD ==
    /\ Init /\ [][DNext]_vars
    /\ WF_vars(DestroyInstanceBody)
    /\ WF_vars(DLoop)

\* the message queue alone, used by two threads
SpecQ == Init /\ [][QNext]_vars

\* the manager: an application thread and the update thread
SpecM == Init /\ [][MNext]_vars

\* the manager: an application thread that initializes, configures and
\* deinitializes, and the update thread
SpecC == Init /\ [][CNext]_vars

\* the manager's update loop with the clock
SpecT == Init /\ [][TNext]_vars

\* the manager's update loop under every update mode
SpecU == Init /\ [][UNext]_vars

\* the server: the application thread and the accept thread
Spec == Init /\ [][SNext]_vars

\* the same under fair scheduling: a thread inside Stop takes its next step, and
\* so does the accept thread (the arrival and the departure of a client and an
\* exception in the loop are events that need not happen)
SpecF ==
    /\ Spec
    /\ WF_vars(DisconnectAllClients \/ CloseServerSocket \/ CleanupNetworking
                  \/ StopWait)
    /\ WF_vars(AcceptThreadListen \/ AcceptThreadSetRunning \/ AcceptThreadRun
                  \/ LoopExit \/ AddClient \/ ConnectedNotify
                  \/ ConnectedCallbackReturn \/ DisconnectedNotify
                  \/ DisconnectedCallbackReturn \/ RunDeferred)

\* the manager with a registered callback, the update thread scheduled fairly
SpecL == Init /\ [][LNext]_vars /\ WF_vars(LLoop)

\* the server: the application thread, a broadcasting thread, the accept thread
SpecB == Init /\ [][BNext]_vars

\* the encoder applied to snapshots of every kind
SpecE == Init /\ [][ENext]_vars

\* two threads that get and destroy the manager instance
SpecI == Init /\ [][INext]_vars

====
